---- MODULE Spec2Model ----
(***************************************************************************)
(* The tool-calling orchestration loop of the tennis chatbot backend:      *)
(* core/llm_processor.py process_chat_request, with the tool registry of   *)
(* core/tool_definitions.py, the tools get_rankings and perform_web_search *)
(* and the response schema of schemas/chat_schemas.py.                     *)
(*                                                                         *)
(* One behaviour is one call of process_chat_request.  The LLM and the     *)
(* upstream services are the environment: every response of the LLM and    *)
(* every outcome of an upstream request is chosen nondeterministically.    *)
(* The settings the services read (API keys, hosts) are taken as           *)
(* configured: configuration loading is outside the orchestrator.          *)
(***************************************************************************)
EXTENDS Integers, Sequences, FiniteSets

\* ------------------------------------------------------------------ bounds

\* The largest number of parts in one LLM response.
MaxParts == 2

\* ------------------------------------------------------- program constants

\* llm_processor.py:75  max_turns = 5
max_turns == 5

\* tool_definitions.py:92-103  the keys of TOOL_REGISTRY
TOOL_REGISTRY ==
    { "find_match_and_get_details", "get_scheduled_events_by_date",
      "get_live_events", "get_odds_by_date", "get_event_statistics",
      "get_player_performance", "get_h2h_events", "get_rankings",
      "perform_web_search", "debug_api_search" }

\* llm_processor.py:151, 156, 159  the three fixed responses
NoToolResponsesMessage ==
    "I tried to use a tool, but something went wrong. Please try again."
TurnsExceededMessage ==
    "I'm having trouble finding an answer. Please try rephrasing your question."
CriticalErrorMessage ==
    "I'm sorry, a critical error occurred and I can't process your request right now."

\* llm_processor.py:130  the default of web_search_results.get("context", ...)
NoWebContext == "No information found from web search."

\* ------------------------------------------------------------------ inputs

\* request.query (chat_schemas.py:16): the user's queries tried.
Queries == { "who leads the atp rankings" }

\* The text of an LLM response that asks the user instead of answering.
ClarifyingQuestion == "Which tour do you mean?"

\* A call's arguments: a mapping with at most one entry (key = "" when empty).
NoArgs == [key |-> "", value |-> ""]
Arg(k, v) == [key |-> k, value |-> v]

\* part.function_call of a part that holds no function call (falsy).
NoCall == [name |-> "", args |-> NoArgs]

TextPart(t) == [text |-> t, function_call |-> NoCall]
CallPart(n, a) == [text |-> "", function_call |-> [name |-> n, args |-> a]]

\* The function calls the LLM may request: a registered tennis tool with a
\* valid argument or with its required argument missing, the web search tool
\* with a query of the LLM's own, and a tool that is not registered.
LlmSearchQuery == "atp rankings leader today"
Calls ==
    { CallPart("get_rankings", Arg("ranking_type", "atp")),
      CallPart("get_rankings", NoArgs),
      CallPart("perform_web_search", Arg("query", LlmSearchQuery)),
      CallPart("nonexistent_tool", NoArgs) }

\* The parts of a response that requests function calls: the calls, and the
\* text that may accompany them.
Answer == "Sinner leads the ranking."
Parts == { TextPart(Answer) } \cup Calls

\* The responses of the LLM: every sequence of at most MaxParts parts, the
\* empty one included, and the clarifying question asked on its own.
Responses ==
    UNION { [1..n -> Parts] : n \in 0..MaxParts }
        \cup { << TextPart(ClarifyingQuestion) >> }

\* Outcomes of the upstream requests of the two services, as the loop meets
\* them: the request succeeds, or it fails.
ApiOutcomes == { "json", "request_error" }
WebOutcomes == { "items", "http_error" }

\* str(e) of the exceptions that reach the top-level handler.
ExceptionMessages == { "429 quota exceeded", "connection reset by peer" }

\* ------------------------------------------------------------------- state

VARIABLES
    pc,              \* where process_chat_request stands: "start", "send",
                     \* "tools", "done"
    query,           \* request.query
    turn_num,        \* the loop variable of `for turn_num in range(max_turns)`
    prompt,          \* the prompt the next send_message_async call transmits
    parts,           \* response.parts of the latest LLM response
    part_idx,        \* position of `for part in response.parts` (1-based)
    tool_responses,  \* the list built at llm_processor.py:92-147
    used_sources,    \* the list kept at llm_processor.py:74
    result,          \* the ChatResponse returned, NoResult until then
    sent,            \* history: number of send_message_async calls so far
    invoked,         \* history: the implementations called in the turn of
                     \* the latest LLM response
    any_invoked,     \* history: some implementation was called in this request
    escalated,       \* history: what raised into the handler at
                     \* llm_processor.py:157 ("" while nothing did)
    exception        \* history: the message of that exception

loopVars == << pc, query, turn_num, prompt, parts, part_idx, tool_responses,
               used_sources, result, sent, invoked, any_invoked, escalated,
               exception >>

\* The streaming path: core/chat_orchestrator.py process_chat_request_stream
\* driving core/llm/gemini_service.py GeminiService.generate_response_async.
VARIABLES
    stream_pc,             \* where the generator stands: "send" (awaiting the
                           \* call of line 48), "tool" (awaiting google_search,
                           \* line 59), "send_stream" (awaiting the call of
                           \* line 61), "stream" (awaiting the next chunk, line
                           \* 66), "yield" (suspended at line 68), "last_yield"
                           \* (suspended at line 71, 77 or 80), "apology_yield"
                           \* (chat_orchestrator.py:48), "done"; "idle" when
                           \* no streaming request runs
    stream_response,       \* `response` of gemini_service.py:48: its parts
    final_response_stream, \* the chunks of line 61's stream not yet read
    tool_response_content, \* gemini_service.py:59
    response_chunks,       \* chat_orchestrator.py:24: the fragments yielded
    llm_calls,             \* history: the stream flag of every
                           \* send_message_async call made
    searches,              \* history: the google_search executions started,
                           \* each "running", "returned" or "cancelled"
    consumer               \* the consumer of the stream: "pulling", "stopped"
                           \* (it abandoned the stream) or "cancelled"

streamVars == << stream_pc, stream_response, final_response_stream,
                 tool_response_content, response_chunks, llm_calls, searches,
                 consumer >>

\* The player resolution: services/tennis_logic/player_finder.py
\* find_player_id_by_name, and services/tennis_api_client.py
\* _find_player_id_by_name, which the tools of TOOL_REGISTRY call.
VARIABLES
    finder_pc,       \* where the resolution stands: "start", "gather" (the
                     \* searches are awaited), "done"; "idle" when none runs
    player_name,     \* the argument, a string as its sequence of characters
    search_terms,    \* the terms searched for
    api_results,     \* what each search returned, Pending until it has
    finder_result    \* what the resolution returned or raised

finderVars == << finder_pc, player_name, search_terms, api_results,
                 finder_result >>

\* The data-source client: services/tennis_logic/api_client.py
\* make_api_request under its retry decorator, called by
\* services/tennis_tools.py get_general_schedule.
VARIABLES
    client_pc,       \* "tool" (get_general_schedule is entered), "request"
                     \* (an attempt is under way), "returning" (the request
                     \* is over), "done"; "idle" when no request runs
    date,            \* the argument of get_general_schedule
    attempt_number,  \* retry_state.attempt_number: the attempts made
    attempts,        \* history: the outcome of every attempt made
    request_result,  \* what make_api_request returned or raised
    tool_result      \* what get_general_schedule returned or raised

clientVars == << client_pc, date, attempt_number, attempts, request_result,
                 tool_result >>

\* The session store: api/session_manager.py over its Redis client, and the
\* request whose turn core/chat_orchestrator.py saves.
VARIABLES
    redis_store,     \* the value Redis holds under each session key, Nil
                     \* for a key that does not exist
    op,              \* for each caller, the session_manager function it is
                     \* in or has left: its name, arguments, position ("idle",
                     \* "save": get_history has returned to update_history,
                     \* "delete": exists() was true, "done"), the history it
                     \* holds or returned, and the Redis reads and writes it
                     \* has issued
    request          \* the ChatRequest of the streaming path: query and
                     \* session_id

sessionVars == << redis_store, op, request >>

\* The response simplifiers: services/tennis_logic/data_parser.py and their
\* earlier copies in services/tennis_api_client.py, applied to a payload.
VARIABLES
    parser_pc,       \* "input" (a payload is at hand), "parsed", "reparsed"
                     \* (the preview was simplified again); "idle" otherwise
    parser_fn,       \* the function applied
    parser_input,    \* its arguments
    parser_output,   \* what it returned
    parser_second    \* what the second pass over events_preview returned

parserVars == << parser_pc, parser_fn, parser_input, parser_output,
                 parser_second >>

\* The match finder: services/tennis_tools.py find_match_and_get_details.
VARIABLES
    match_pc,        \* "start", "schedule", "live", "statistics", "h2h"
                     \* (the lookup awaited), "done"; "idle" when none runs
    match_args,      \* player1_name, player2_name, date
    lookups,         \* history: the upstream lookups made, in order
    match_events,    \* the simplified events in which the match is looked
                     \* for
    match_result     \* what the tool returned or raised

matchVars == << match_pc, match_args, lookups, match_events, match_result >>

\* The head-to-head tool: services/tennis_tools.py get_h2h_events and its
\* earlier copy in services/tennis_api_client.py.
VARIABLES
    h2h_pc,          \* "start", "gather" (the two resolutions are awaited),
                     \* "request" (the head-to-head request is awaited),
                     \* "done"; "idle" when the tool does not run
    h2h_args,        \* the copy called, player1_name, player2_name
    resolutions,     \* what each of the two resolutions returned or raised,
                     \* NoOutcome while it is under way
    h2h_requests,    \* history: the head-to-head requests issued, each with
                     \* the two ids asked for
    h2h_result       \* what the tool returned or raised

headToHeadVars == << h2h_pc, h2h_args, resolutions, h2h_requests, h2h_result >>

vars == << loopVars, streamVars, finderVars, clientVars, sessionVars,
           parserVars, matchVars, headToHeadVars >>

\* What a step of process_chat_request leaves alone.
notLoopVars == << streamVars, finderVars, clientVars, sessionVars,
                   parserVars, matchVars, headToHeadVars >>

\* What a step of the streaming path leaves alone.
notStreamVars == << loopVars, finderVars, clientVars, sessionVars,
                   parserVars, matchVars, headToHeadVars >>

\* What a step of the player resolution leaves alone.
notFinderVars == << loopVars, streamVars, clientVars, sessionVars,
                   parserVars, matchVars, headToHeadVars >>

\* What a step of the data-source client leaves alone.
notClientVars == << loopVars, streamVars, finderVars, sessionVars,
                   parserVars, matchVars, headToHeadVars >>

\* What a step of a response simplifier leaves alone.
notParserVars == << loopVars, streamVars, finderVars, clientVars, sessionVars,
                    matchVars, headToHeadVars >>

\* What a step of the match finder leaves alone.
notMatchVars == << loopVars, streamVars, finderVars, clientVars, sessionVars,
                   parserVars, headToHeadVars >>

\* What a step of the head-to-head tool leaves alone.
notHeadToHeadVars == << loopVars, streamVars, finderVars, clientVars,
                        sessionVars, parserVars, matchVars >>

\* What a step of the session store leaves alone.
notSessionVars == << loopVars, streamVars, finderVars, clientVars,
                   parserVars, matchVars, headToHeadVars >>

\* Nothing returned or raised yet.
NoOutcome == [kind |-> "none", value |-> 0, exc |-> ""]

\* No player resolution runs.
FinderAtRest ==
    /\ finder_pc = "idle"
    /\ player_name = << >>
    /\ search_terms = << >>
    /\ api_results = << >>
    /\ finder_result = NoOutcome

\* No upstream request runs.
ClientAtRest ==
    /\ client_pc = "idle"
    /\ date = ""
    /\ attempt_number = 0
    /\ attempts = << >>
    /\ request_result = NoOutcome
    /\ tool_result = NoOutcome

\* session_manager.py:32  SESSION_KEY_PREFIX
SESSION_KEY_PREFIX == "chat_session:"

\* The session ids of the requests: none (None or ""), and two sessions.
SessionIds == { "", "A", "B" }

\* A key that leaves the session id out.
KeyWithoutSession(session_id) == SESSION_KEY_PREFIX

\* session_manager.py:42, 61, 103  the key of a session
Key(session_id) == SESSION_KEY_PREFIX \o session_id

Keys == { Key(s) : s \in SessionIds }

\* What redis_client.get returns for a key that does not exist (None).
Nil == [type |-> "nil"]

\* The callers of session_manager running side by side (server workers
\* sharing the Redis instance).
Callers == { 1, 2 }

\* A caller that has called nothing yet.
IdleOp ==
    [name |-> "", session_id |-> "", pc |-> "idle", history |-> << >>,
     reads |-> 0, writes |-> 0]

\* No streaming request.
NoRequest == [query |-> "", session_id |-> ""]

\* The store is empty and nobody uses it.
SessionAtRest ==
    /\ redis_store = [k \in Keys |-> Nil]
    /\ op = [c \in Callers |-> IdleOp]
    /\ request = NoRequest

\* No simplifier is applied.
ParserAtRest ==
    /\ parser_pc = "idle"
    /\ parser_fn = ""
    /\ parser_input = << >>
    /\ parser_output = << >>
    /\ parser_second = << >>

\* No match is looked for.
MatchAtRest ==
    /\ match_pc = "idle"
    /\ match_args = << >>
    /\ lookups = << >>
    /\ match_events = [searched |-> FALSE, upstream |-> << >>, events |-> << >>,
                       target |-> [t |-> "null"]]
    /\ match_result = NoOutcome

\* The simplifiers and the match finder are at rest.
\* The head-to-head tool does not run.
HeadToHeadAtRest ==
    /\ h2h_pc = "idle"
    /\ h2h_args = << >>
    /\ resolutions = << >>
    /\ h2h_requests = << >>
    /\ h2h_result = NoOutcome

ToolsAtRest == ParserAtRest /\ MatchAtRest /\ HeadToHeadAtRest

\* The largest history update_history is started on, in messages.
MaxHistory == 4

\* schemas/chat_schemas.py:9-12  ChatMessage
ChatMessage(role, content) == [role |-> role, content |-> content]

\* The texts of the turns saved and of the contexts set.
UserQueries == { "who won wimbledon" }
ModelResponses == { "Sinner won in four sets." }
Contexts == { "Sinner leads 2-1" }

\* session_manager.py:63  msg.model_dump(): the dict of the message's fields
model_dump(msg) == [role |-> msg.role, content |-> msg.content]

\* session_manager.py:53  ChatMessage.model_validate(msg)
model_validate(d) == ChatMessage(d.role, d.content)

\* session_manager.py:63  json.dumps of the list of dicts: the stored string,
\* here the JSON array it denotes.
json_dumps(dicts) == [type |-> "json", items |-> dicts]

\* session_manager.py:52  json.loads
json_loads(json_history) == json_history.items

\* session_manager.py:37-53  get_history: what it returns and the number of
\* reads (redis_client.get) it issues.
GetHistoryCall(store, session_id) ==
    IF session_id = ""
    THEN [returned |-> << >>, reads |-> 0]
    ELSE LET json_history == store[Key(session_id)]
         IN  IF json_history = Nil
             THEN [returned |-> << >>, reads |-> 1]
             ELSE [returned |->
                       [i \in 1..Len(json_loads(json_history)) |->
                           model_validate(json_loads(json_history)[i])],
                   reads |-> 1]

get_history(store, session_id) == GetHistoryCall(store, session_id).returned

\* A _save_history that leaves out the test of session_id.
SaveHistoryUnguarded(store, session_id, history) ==
    [store |-> [store EXCEPT ![Key(session_id)] =
                   json_dumps([i \in 1..Len(history) |-> model_dump(history[i])])],
     writes |-> 1]

\* session_manager.py:56-67  _save_history: the store after it and the
\* number of writes (redis_client.set) it issues.
SaveHistoryCall(store, session_id, history) ==
    IF session_id = ""
    THEN [store |-> store, writes |-> 0]
    ELSE [store |-> [store EXCEPT ![Key(session_id)] =
                        json_dumps([i \in 1..Len(history) |-> model_dump(history[i])])],
          writes |-> 1]

\* session_manager.py:76-80  the history set_initial_context saves
InitialHistory(context) ==
    << ChatMessage("user",
          "[CONTEXT] Here is the detailed analysis of the match:\n\n" \o context) >>

\* A variant that appends the model's message before the user's.
UpdatedHistoryModelFirst(history, user_query, model_response_content) ==
    Append(Append(history, ChatMessage("model", model_response_content)),
           user_query)

\* session_manager.py:89-96  the history update_history saves, from the one
\* get_history returned.
UpdatedHistory(history, user_query, model_response_content) ==
    Append(Append(history, user_query),
           ChatMessage("model", model_response_content))

\* A variant of update_history that saves the model's message only.
update_history_model_only(store, session_id, user_query, model_response_content) ==
    SaveHistoryCall(store, session_id,
        Append(get_history(store, session_id),
               ChatMessage("model", model_response_content))).store

\* session_manager.py:85-98  update_history run without interruption: the
\* store after it.
update_history(store, session_id, user_query, model_response_content) ==
    SaveHistoryCall(store, session_id,
        UpdatedHistory(get_history(store, session_id), user_query,
                       model_response_content)).store

\* The messages stored for a session, none when its key does not exist.
StoredHistory(session_id) ==
    IF redis_store[Key(session_id)] = Nil THEN << >>
    ELSE json_loads(redis_store[Key(session_id)])

\* "".join(response_chunks)
RECURSIVE Concat(_)
Concat(strs) ==
    IF Len(strs) = 0 THEN "" ELSE Head(strs) \o Concat(Tail(strs))

\* No streaming request runs.
StreamAtRest ==
    /\ stream_pc = "idle"
    /\ stream_response = << >>
    /\ final_response_stream = << >>
    /\ tool_response_content = ""
    /\ response_chunks = << >>
    /\ llm_calls = << >>
    /\ searches = << >>
    /\ consumer = "pulling"

NoResult == [response |-> ""]
NoPrompt == [kind |-> "none", text |-> "", responses |-> << >>]
QueryPrompt(q) == [kind |-> "query", text |-> q, responses |-> << >>]
ToolPrompt(rs) == [kind |-> "tool_responses", text |-> "", responses |-> rs]

\* ------------------------------------------------------ the response schema

\* chat_schemas.py:21-23  ChatResponse declares the single field `response`;
\* a pydantic model ignores keyword arguments that are not declared fields, so
\* the `sources` argument of llm_processor.py:84-87 is not kept.
ChatResponse(response, sources) == [response |-> response]

\* ----------------------------------------------------- the response's text

\* A part holds a function call (llm_processor.py:94, `part.function_call`).
HasFunctionCall(part) == part.function_call.name # ""

RECURSIVE JoinTexts(_)
JoinTexts(ps) ==
    IF Len(ps) = 0 THEN ""
    ELSE IF Len(ps) = 1 THEN ps[1].text
    ELSE ps[1].text \o "\n" \o JoinTexts(Tail(ps))

\* A text accessor that reads single-part responses only.
TextReadableSinglePart(ps) == Len(ps) = 1 /\ ~HasFunctionCall(ps[1])

\* llm_processor.py:81-90  response.text is readable when the response has
\* parts and all are text; otherwise the accessor raises ValueError.
TextReadable(ps) == Len(ps) > 0 /\ \A i \in 1..Len(ps) : ~HasFunctionCall(ps[i])

\* ------------------------------------------------------------- the tools

\* web_search_client.py:15-70  perform_web_search: one of {context, source},
\* {summary} or {error}; no exception leaves it.
perform_web_search(q, web) ==
    CASE web = "items" ->
           [context |-> "Title: result\nSnippet: about " \o q,
            source |-> "Google Custom Search API"]
      [] web = "empty" ->
           [summary |-> "I searched but couldn't find any relevant information."]
      [] web = "http_error" ->
           [error |-> "The web search service returned an error: 503"]
      [] web = "request_error" ->
           [error |-> "Failed to connect to the web search service: timed out"]
      [] web = "unexpected" ->
           [error |-> "An unexpected error occurred while trying to search the web."]

\* tennis_api_client.py:22-45  _make_request_async
make_request_async(path, api) ==
    CASE api = "json" -> [rankings |-> "payload of " \o path]
      [] api = "http_error" ->
           [error |-> "API request failed with status 500. Response: "]
      [] api = "request_error" -> [error |-> "Could not connect to the Tennis API."]
      [] api = "bad_json" -> [error |-> "Received invalid data from the Tennis API."]

\* tennis_api_client.py:370-374  get_rankings (the ranking types tried are
\* lower-case already, so ranking_type.lower() leaves them as they are)
get_rankings(ranking_type, api) ==
    IF ranking_type \notin {"atp", "wta"}
    THEN [error |-> "Invalid ranking_type. Must be 'atp' or 'wta'."]
    ELSE make_request_async("api/tennis/rankings/" \o ranking_type \o "/live", api)

Returned(output) == [raised |-> FALSE, output |-> output, message |-> ""]
Raised(message) == [raised |-> TRUE, output |-> [error |-> ""], message |-> message]

\* llm_processor.py:107-112  tool_function(**args): a call without the
\* function's required keyword raises TypeError.
CallTool(function_name, args, api, web) ==
    CASE function_name = "get_rankings" ->
           IF args.key = "ranking_type"
           THEN Returned(get_rankings(args.value, api))
           ELSE Raised("get_rankings() missing 1 required positional argument: 'ranking_type'")
      [] function_name = "perform_web_search" ->
           IF args.key = "query"
           THEN Returned(perform_web_search(args.value, web))
           ELSE Raised("perform_web_search() missing 1 required positional argument: 'query'")

\* tool_function.__module__.split('.')[-1]  (tool_definitions.py:13-24)
ModuleName(function_name) ==
    IF function_name = "perform_web_search" THEN "web_search_client"
    ELSE "tennis_api_client"

\* ------------------------------------------- one tool invocation request

\* llm_processor.py:105
UnknownToolOutput(function_name) ==
    [error |-> "Tool '" \o function_name \o "' not found."]

\* llm_processor.py:137
ExecutionFailedOutput(function_name, message) ==
    [error |-> "Execution failed for tool '" \o function_name \o "': " \o message]

\* llm_processor.py:114-115
SourceName(function_name) == ModuleName(function_name) \o ": " \o function_name

\* llm_processor.py:116-117  append unless already present
RecordSource(sources, source_name) ==
    IF \E i \in 1..Len(sources) : sources[i] = source_name
    THEN sources
    ELSE Append(sources, source_name)

\* llm_processor.py:125  appended without the membership test of line 116
RecordFallbackSource(sources) ==
    Append(sources, "web_search_client: perform_web_search")

\* llm_processor.py:120
IsPrimaryToolFailure(tool_output, function_name) ==
    "error" \in DOMAIN tool_output /\ function_name # "perform_web_search"

\* A fallback that searches for the failed tool's argument.
FallbackQueryFromArgs(request_query, args) == args.value

\* llm_processor.py:124  the fallback searches for request.query
FallbackQuery(request_query, args) == request_query

\* llm_processor.py:128-131
FallbackContext(tool_output, web_search_results) ==
    [original_tool_error |-> tool_output,
     web_search_context |->
        IF "context" \in DOMAIN web_search_results
        THEN web_search_results.context
        ELSE NoWebContext]

\* An entry of `invoked`: an implementation was called with this value of
\* its one argument, by the registry dispatch or as the fallback, and
\* returned a payload without an error ("ok"), one with an error ("error"),
\* or raised ("raised", with the exception's message).
Invocation(function_name, value, fallback, outcome, message) ==
    [fn |-> function_name, value |-> value, fallback |-> fallback,
     outcome |-> outcome, message |-> message]

OutcomeOf(output) == IF "error" \in DOMAIN output THEN "error" ELSE "ok"

\* A tool call without the per-tool handler: the exception leaves the loop.
ToolRaisedUncaught(function_name, args, sources, message) ==
    [tool_output |-> ExecutionFailedOutput(function_name, message),
     used_sources |-> sources,
     invoked |-> << Invocation(function_name, args.value, FALSE, "raised", message) >>,
     escalated |-> TRUE]

\* llm_processor.py:135-137  the per-tool handler: the exception becomes the
\* tool's output, and the sources stay as they were.
ToolRaised(function_name, args, sources, message) ==
    [tool_output |-> ExecutionFailedOutput(function_name, message),
     used_sources |-> sources,
     invoked |-> << Invocation(function_name, args.value, FALSE, "raised", message) >>,
     escalated |-> FALSE]

\* llm_processor.py:107-137  a registered tool: the call, the source record,
\* the smart fallback and the per-tool handler.
RunTool(function_name, args, request_query, sources, api, web) ==
    LET call == CallTool(function_name, args, api, web)
        recorded == RecordSource(sources, SourceName(function_name))
        first == Invocation(function_name, args.value, FALSE,
                            OutcomeOf(call.output), "")
    IN  IF call.raised
        THEN ToolRaised(function_name, args, sources, call.message)
        ELSE IF IsPrimaryToolFailure(call.output, function_name)
        THEN LET q == FallbackQuery(request_query, args)
                 web_search_results == perform_web_search(q, web)
             IN  [tool_output |-> FallbackContext(call.output, web_search_results),
                  used_sources |-> RecordFallbackSource(recorded),
                  invoked |-> << first,
                                 Invocation("perform_web_search", q, TRUE,
                                            OutcomeOf(web_search_results), "") >>,
                  escalated |-> FALSE]
        ELSE [tool_output |-> call.output,
              used_sources |-> recorded,
              invoked |-> << first >>,
              escalated |-> FALSE]

\* A dispatch that indexes TOOL_REGISTRY without the membership test: the
\* KeyError is raised outside the per-tool try block.
UnknownToolKeyError(function_name, sources) ==
    [tool_output |-> UnknownToolOutput(function_name),
     used_sources |-> sources,
     invoked |-> << >>,
     escalated |-> TRUE]

\* llm_processor.py:103-105  a name that is not a key of TOOL_REGISTRY
UnknownTool(function_name, sources) ==
    [tool_output |-> UnknownToolOutput(function_name),
     used_sources |-> sources,
     invoked |-> << >>,
     escalated |-> FALSE]

\* llm_processor.py:103-137  one function call of the response
ExecuteCall(function_name, args, request_query, sources, api, web) ==
    IF function_name \notin TOOL_REGISTRY
    THEN UnknownTool(function_name, sources)
    ELSE RunTool(function_name, args, request_query, sources, api, web)

\* llm_processor.py:140-147  the FunctionResponse part
FunctionResponse(function_name, tool_output) ==
    [name |-> function_name, response |-> tool_output]

\* Tool responses collected newest first.
PrependToolResponse(responses, r) == << r >> \o responses

\* llm_processor.py:140  tool_responses.append(...)
AppendToolResponse(responses, r) == Append(responses, r)

\* A loop that runs one iteration more than max_turns.
HasNextTurnOffByOne(n) == n < max_turns

\* llm_processor.py:77  range(max_turns): another iteration follows
HasNextTurn(n) == n + 1 < max_turns

\* The exhausted loop answers with the message of line 151 instead.
LoopExhaustedResultWrongMessage == ChatResponse(NoToolResponsesMessage, << >>)

\* llm_processor.py:156  the response once the loop is exhausted
LoopExhaustedResult == ChatResponse(TurnsExceededMessage, << >>)

\* A handler that reports the exception to the user.
CriticalErrorResultWithDetail(e) ==
    ChatResponse(CriticalErrorMessage \o " " \o e, << >>)

\* llm_processor.py:157-159  the top-level handler: e is logged, the response
\* is the fixed apology.
CriticalErrorResult(e) == ChatResponse(CriticalErrorMessage, << >>)

\* No process_chat_request call runs.
LoopAtRest ==
    /\ pc = "idle"
    /\ query = ""
    /\ turn_num = 0
    /\ prompt = NoPrompt
    /\ parts = << >>
    /\ part_idx = 1
    /\ tool_responses = << >>
    /\ used_sources = << >>
    /\ result = NoResult
    /\ sent = 0
    /\ invoked = << >>
    /\ any_invoked = FALSE
    /\ escalated = ""
    /\ exception = ""

\* ------------------------------------------------------------ the actions

\* llm_processor.py:67  the state on entry of the try block
Init ==
    /\ pc = "start"
    /\ query \in Queries
    /\ turn_num = 0
    /\ prompt = QueryPrompt(query)
    /\ parts = << >>
    /\ part_idx = 1
    /\ tool_responses = << >>
    /\ used_sources = << >>
    /\ result = NoResult
    /\ sent = 0
    /\ invoked = << >>
    /\ any_invoked = FALSE
    /\ escalated = ""
    /\ exception = ""
    /\ StreamAtRest
    /\ FinderAtRest
    /\ ClientAtRest
    /\ ToolsAtRest
    /\ SessionAtRest

\* llm_processor.py:68-75  the history is converted, the chat opened and the
\* locals initialised.
StartChat ==
    /\ pc = "start"
    /\ pc' = "send"
    /\ UNCHANGED << query, turn_num, prompt, parts, part_idx, tool_responses,
                    used_sources, result, sent, invoked, any_invoked, escalated,
                    exception >>
    /\ UNCHANGED notLoopVars

\* llm_processor.py:68-72, 157-159  _convert_history_to_gemini_format or
\* model.start_chat raises.
StartChatRaises ==
    \E e \in ExceptionMessages :
        /\ pc = "start"
        /\ result' = CriticalErrorResult(e)
        /\ escalated' = "start_chat"
        /\ exception' = e
        /\ pc' = "done"
        /\ UNCHANGED << query, turn_num, prompt, parts, part_idx,
                        tool_responses, used_sources, sent, invoked,
                        any_invoked >>
        /\ UNCHANGED notLoopVars

\* What every send_message_async call does to the state (llm_processor.py:79).
Transmit ==
    /\ pc = "send"
    /\ prompt.kind # "none"
    /\ sent' = sent + 1
    /\ prompt' = NoPrompt

\* llm_processor.py:79-87  the LLM answers with text only: response.text is
\* readable and the ChatResponse is returned.
SendMessageText ==
    \E resp \in Responses :
        /\ Transmit
        /\ TextReadable(resp)
        /\ parts' = resp
        /\ invoked' = << >>
        /\ result' = ChatResponse(JoinTexts(resp), used_sources)
        /\ pc' = "done"
        /\ UNCHANGED << query, turn_num, part_idx, tool_responses,
                        used_sources, any_invoked, escalated, exception >>
        /\ UNCHANGED notLoopVars

\* llm_processor.py:79-92  response.text raises ValueError: the part loop starts.
SendMessageToolCalls ==
    \E resp \in Responses :
        /\ Transmit
        /\ ~TextReadable(resp)
        /\ parts' = resp
        /\ invoked' = << >>
        /\ part_idx' = 1
        /\ tool_responses' = << >>
        /\ pc' = "tools"
        /\ UNCHANGED << query, turn_num, used_sources, result, any_invoked,
                        escalated, exception >>
        /\ UNCHANGED notLoopVars

\* llm_processor.py:79, 157-159  send_message_async raises: the top-level
\* handler returns the critical apology.
SendMessageRaises ==
    \E e \in ExceptionMessages :
        /\ Transmit
        /\ result' = CriticalErrorResult(e)
        /\ escalated' = "send_message_async"
        /\ exception' = e
        /\ pc' = "done"
        /\ UNCHANGED << query, turn_num, parts, part_idx, tool_responses,
                        used_sources, invoked, any_invoked >>
        /\ UNCHANGED notLoopVars

\* llm_processor.py:93-95  a part without a function call is skipped.
SkipPart ==
    /\ pc = "tools"
    /\ part_idx <= Len(parts)
    /\ ~HasFunctionCall(parts[part_idx])
    /\ part_idx' = part_idx + 1
    /\ UNCHANGED << pc, query, turn_num, prompt, parts, tool_responses,
                    used_sources, result, sent, invoked, any_invoked, escalated, exception >>
    /\ UNCHANGED notLoopVars

\* llm_processor.py:97-147  a part with a function call: the call is executed
\* and its FunctionResponse appended.  An exception that leaves the per-tool
\* try block would reach the handler of line 157 and end the request.
ExecutePart ==
    /\ pc = "tools"
    /\ part_idx <= Len(parts)
    /\ HasFunctionCall(parts[part_idx])
    /\ \E api \in ApiOutcomes, web \in WebOutcomes :
        LET call == parts[part_idx].function_call
            r == ExecuteCall(call.name, call.args, query, used_sources, api, web)
            done == [i \in 1..Len(r.invoked) |->
                        [part |-> part_idx, call |-> r.invoked[i]]]
        IN  /\ invoked' = invoked \o done
            /\ any_invoked' = (any_invoked \/ Len(done) > 0)
            /\ used_sources' = r.used_sources
            /\ IF r.escalated
               THEN /\ result' = CriticalErrorResult(r.tool_output.error)
                    /\ escalated' = "tool"
                    /\ exception' = r.tool_output.error
                    /\ pc' = "done"
                    /\ UNCHANGED << part_idx, tool_responses >>
               ELSE /\ tool_responses' =
                          AppendToolResponse(tool_responses,
                              FunctionResponse(call.name, r.tool_output))
                    /\ part_idx' = part_idx + 1
                    /\ UNCHANGED << pc, result, escalated, exception >>
    /\ UNCHANGED << query, turn_num, prompt, parts, sent >>
    /\ UNCHANGED notLoopVars

\* llm_processor.py:97-147, 157-159  the call is executed, and building its
\* FunctionResponse part (lines 140-147) raises.
ExecutePartResponseRaises ==
    /\ pc = "tools"
    /\ part_idx <= Len(parts)
    /\ HasFunctionCall(parts[part_idx])
    /\ \E api \in ApiOutcomes, web \in WebOutcomes, e \in ExceptionMessages :
        LET call == parts[part_idx].function_call
            r == ExecuteCall(call.name, call.args, query, used_sources, api, web)
            done == [i \in 1..Len(r.invoked) |->
                        [part |-> part_idx, call |-> r.invoked[i]]]
        IN  /\ ~r.escalated
            /\ invoked' = invoked \o done
            /\ any_invoked' = (any_invoked \/ Len(done) > 0)
            /\ used_sources' = r.used_sources
            /\ result' = CriticalErrorResult(e)
            /\ escalated' = "function_response"
            /\ exception' = e
            /\ pc' = "done"
    /\ UNCHANGED << query, turn_num, prompt, parts, part_idx, tool_responses,
                    sent >>
    /\ UNCHANGED notLoopVars

\* llm_processor.py:149-151  no function call was processed in this turn.
EndTurnNoToolResponses ==
    /\ pc = "tools"
    /\ part_idx > Len(parts)
    /\ tool_responses = << >>
    /\ result' = ChatResponse(NoToolResponsesMessage, << >>)
    /\ pc' = "done"
    /\ UNCHANGED << query, turn_num, prompt, parts, part_idx, tool_responses,
                    used_sources, sent, invoked, any_invoked, escalated, exception >>
    /\ UNCHANGED notLoopVars

\* llm_processor.py:153, 77  the tool responses become the prompt of the
\* next iteration.
EndTurnNextTurn ==
    /\ pc = "tools"
    /\ part_idx > Len(parts)
    /\ tool_responses # << >>
    /\ HasNextTurn(turn_num)
    /\ prompt' = ToolPrompt(tool_responses)
    /\ turn_num' = turn_num + 1
    /\ pc' = "send"
    /\ UNCHANGED << query, parts, part_idx, tool_responses, used_sources,
                    result, sent, invoked, any_invoked, escalated, exception >>
    /\ UNCHANGED notLoopVars

\* llm_processor.py:153-156  the last iteration ends: the loop is left and
\* the fixed message returned.
EndTurnBudgetExhausted ==
    /\ pc = "tools"
    /\ part_idx > Len(parts)
    /\ tool_responses # << >>
    /\ ~HasNextTurn(turn_num)
    /\ prompt' = ToolPrompt(tool_responses)
    /\ result' = LoopExhaustedResult
    /\ pc' = "done"
    /\ UNCHANGED << query, turn_num, parts, part_idx, tool_responses, used_sources,
                    sent, invoked, any_invoked, escalated, exception >>
    /\ UNCHANGED notLoopVars

Next ==
    \/ StartChat
    \/ StartChatRaises
    \/ SendMessageText
    \/ SendMessageToolCalls
    \/ SendMessageRaises
    \/ SkipPart
    \/ ExecutePart
    \/ ExecutePartResponseRaises
    \/ EndTurnNoToolResponses
    \/ EndTurnNextTurn
    \/ EndTurnBudgetExhausted

Spec == Init /\ [][Next]_vars

\* ------------------------------------------------------------- the claims

\* The function calls among the parts of a response, and the position of
\* the k-th of them.
NumCalls(ps) == Cardinality({ i \in 1..Len(ps) : HasFunctionCall(ps[i]) })
KthCall(ps, k) ==
    CHOOSE i \in 1..Len(ps) :
        /\ HasFunctionCall(ps[i])
        /\ Cardinality({ j \in 1..i : HasFunctionCall(ps[j]) }) = k

\* The latest response requested function calls, so tool_responses and
\* invoked are those of its turn.
InToolTurn == sent > 0 /\ NumCalls(parts) > 0

\* The invocations recorded for the part at position i.
InvokedFor(i) == { n \in 1..Len(invoked) : invoked[n].part = i }

\* An upper bound on the steps the request still takes.
Rank ==
    CASE pc = "done" -> 0
      [] pc = "start" -> max_turns * (MaxParts + 2) + 1
      [] pc = "send" -> (max_turns - turn_num) * (MaxParts + 2)
      [] pc = "tools" -> (max_turns - turn_num) * (MaxParts + 2) - part_idx

\* C1: whatever the LLM answers, at most 5 prompts are sent, the request is
\* never stuck before it has returned a response, and every step brings the
\* return nearer; so the turn loop cannot run forever.
C1_TurnLoopTerminates ==
    /\ [](/\ sent <= 5
          /\ Rank >= 0
          /\ (pc # "done" => ENABLED Next)
          /\ (pc = "done" => result # NoResult))
    /\ [][Rank' < Rank]_vars

\* C1 witness: five prompts were sent, all answered with function calls, and
\* the request has returned.
C1_Witness ==
    pc = "done" /\ sent = 5 /\ escalated = "" /\ NumCalls(parts) > 0

\* C2: when all 5 turns ended with function calls, the response is the fixed
\* message of line 156 and nothing else, whatever the tools returned.
C2_ExhaustedBudgetMessage ==
    (pc = "done" /\ sent = 5 /\ escalated = "" /\ NumCalls(parts) > 0)
        => result =
             [response |->
                "I'm having trouble finding an answer. Please try rephrasing your question."]

\* C2 witness: the fifth turn held a tool that failed and one that raised.
C2_Witness ==
    /\ pc = "done" /\ sent = 5 /\ escalated = ""
    /\ \E m, n \in 1..Len(invoked) :
          invoked[m].call.outcome = "error" /\ invoked[n].call.outcome = "raised"

\* A response carries plain text: one of its parts is a text part.
CarriesText(ps) == \E i \in 1..Len(ps) : ~HasFunctionCall(ps[i])

\* A response is plain text only: it has parts and none is a function call.
PlainTextOnly(ps) == Len(ps) > 0 /\ \A i \in 1..Len(ps) : ps[i].function_call = NoCall

\* C3 as stated: a response that carries plain text ends the loop with no
\* tool executed for its turn.
C3_AnyTextEndsLoop ==
    (sent > 0 /\ escalated = "" /\ CarriesText(parts))
        => (pc = "done" /\ invoked = << >>)

\* C3 amended: a response that is plain text only (no function call beside
\* the text) ends the loop: its text is the response, no tool is executed for
\* that turn and no further prompt is sent.
C3_PlainTextEndsLoop ==
    (sent > 0 /\ escalated = "" /\ PlainTextOnly(parts))
        => /\ pc = "done"
           /\ result.response = JoinTexts(parts)
           /\ invoked = << >>
           /\ prompt = NoPrompt
           /\ ~ENABLED Next

\* C3 witness: a text-only answer of two parts, given after a tool turn.
C3_Witness ==
    /\ pc = "done" /\ escalated = "" /\ sent = 2
    /\ Len(parts) = 2 /\ PlainTextOnly(parts)

\* C4: a function call whose name is not registered calls no implementation,
\* gets the payload {error: "Tool '<name>' not found."} as its tool
\* response, and never raises out of the loop.
C4_UnknownToolRecorded ==
    /\ escalated # "tool"
    /\ InToolTurn =>
         \A k \in 1..Len(tool_responses) :
            LET i == KthCall(parts, k)
                name == parts[i].function_call.name
            IN  name \notin TOOL_REGISTRY =>
                  /\ tool_responses[k] =
                        [name |-> name,
                         response |-> [error |-> "Tool '" \o name \o "' not found."]]
                  /\ InvokedFor(i) = {}

\* C4 witness: the unknown tool came first in its turn, the request after it
\* was executed, and the responses became the next prompt.
C4_Witness ==
    /\ pc = "send" /\ prompt.kind = "tool_responses"
    /\ Len(parts) = 2
    /\ parts[1].function_call.name = "nonexistent_tool"
    /\ InvokedFor(2) # {}

\* C5: a tool that raises gets {error: "Execution failed for tool '<name>':
\* <message>"} as its tool response; every request up to the loop's position
\* has its response, so the later ones of the turn are still executed; and
\* the exception does not reach the handler of line 157.  (A request whose
\* response part could not be built, lines 140-147, is outside the per-tool
\* catch and ends the loop: that case is C11's.)
C5_ToolExceptionContained ==
    /\ escalated # "tool"
    /\ (InToolTurn /\ escalated # "function_response") =>
         /\ pc = "tools" =>
              Len(tool_responses) =
                 Cardinality({ i \in 1..(part_idx - 1) : HasFunctionCall(parts[i]) })
         /\ pc # "tools" => Len(tool_responses) = NumCalls(parts)
         /\ \A k \in 1..Len(tool_responses) :
               LET i == KthCall(parts, k)
                   name == parts[i].function_call.name
               IN  /\ name \in TOOL_REGISTRY =>
                        \E n \in InvokedFor(i) : invoked[n].call.fn = name
                   /\ \A n \in InvokedFor(i) :
                        invoked[n].call.outcome = "raised" =>
                           tool_responses[k].response =
                              [error |-> "Execution failed for tool '" \o name
                                           \o "': " \o invoked[n].call.message]

\* C5 witness: the first request of a turn raised and the second was executed.
C5_Witness ==
    /\ InToolTurn /\ Len(tool_responses) = 2
    /\ \E m \in InvokedFor(1) : invoked[m].call.outcome = "raised"
    /\ \E n \in InvokedFor(2) : invoked[n].call.outcome = "ok"

\* C6: a registered tool other than perform_web_search that returns an error
\* payload is followed by exactly one web search, made with request.query,
\* and its tool response has exactly the keys original_tool_error and
\* web_search_context; no other request is followed by a fallback search, an
\* error payload of perform_web_search included.
C6_SmartFallback ==
    InToolTurn =>
       \A k \in 1..Len(tool_responses) :
          LET i == KthCall(parts, k)
              name == parts[i].function_call.name
              own == { n \in InvokedFor(i) : ~invoked[n].call.fallback }
              fallbacks == { n \in InvokedFor(i) : invoked[n].call.fallback }
              failed == /\ name \in TOOL_REGISTRY
                        /\ name # "perform_web_search"
                        /\ \E n \in own : invoked[n].call.outcome = "error"
          IN  IF failed
              THEN /\ Cardinality(fallbacks) = 1
                   /\ \A n \in fallbacks :
                         /\ invoked[n].call.fn = "perform_web_search"
                         /\ invoked[n].call.value = query
                   /\ DOMAIN tool_responses[k].response =
                         {"original_tool_error", "web_search_context"}
                   /\ "error" \in DOMAIN tool_responses[k].response.original_tool_error
              ELSE /\ fallbacks = {}
                   /\ "original_tool_error" \notin DOMAIN tool_responses[k].response

\* C6 witness: in one turn get_rankings failed and was followed by the
\* fallback, and perform_web_search returned an error and was not.
C6_Witness ==
    /\ InToolTurn /\ Len(tool_responses) = 2
    /\ tool_responses[1].name = "get_rankings"
    /\ "original_tool_error" \in DOMAIN tool_responses[1].response
    /\ tool_responses[2].name = "perform_web_search"
    /\ "error" \in DOMAIN tool_responses[2].response

\* C7: a clarifying question asked before any tool was used is not returned
\* to the user (a web search is forced instead).
C7_ClarifyingQuestionNotReturned ==
    ~(/\ pc = "done"
      /\ escalated = ""
      /\ ~any_invoked
      /\ result.response = ClarifyingQuestion)

\* C8: the prompt sent next holds one tool response per function call of the
\* turn's LLM response, in the order of the calls, each under its call's name.
C8_ToolResponsesInRequestOrder ==
    (pc = "send" /\ sent > 0) =>
       /\ prompt.kind = "tool_responses"
       /\ Len(prompt.responses) = NumCalls(parts)
       /\ \A k \in 1..Len(prompt.responses) :
             prompt.responses[k].name = parts[KthCall(parts, k)].function_call.name

\* C8 witness: a prompt of two tool responses for two different tools.
C8_Witness ==
    /\ pc = "send" /\ sent > 0
    /\ Len(prompt.responses) = 2
    /\ prompt.responses[1].name # prompt.responses[2].name

\* C9: no tool identifier occurs twice in the sources list.
C9_SourcesDeduplicated ==
    \A i, j \in 1..Len(used_sources) :
        i # j => used_sources[i] # used_sources[j]

\* C10: a final text returned after a registered tool was executed carries
\* the list of tool identifiers as its sources.
C10_FinalTextCarriesSources ==
    (pc = "done" /\ escalated = "" /\ PlainTextOnly(parts) /\ used_sources # << >>)
        => /\ "sources" \in DOMAIN result
           /\ result.sources = used_sources

\* C11: whenever an exception reached the top-level handler (from the history
\* conversion or the opening of the chat, from a send_message_async call or
\* from the building of a FunctionResponse), process_chat_request has returned,
\* and what it returned is the fixed apology, the same for every exception.
C11_CriticalErrorApology ==
    escalated # "" =>
        /\ pc = "done"
        /\ exception # ""
        /\ result =
             [response |->
                "I'm sorry, a critical error occurred and I can't process your request right now."]

\* C11 witness: in the second turn a tool was executed and the building of
\* its FunctionResponse raised.
C11_Witness ==
    /\ escalated = "function_response" /\ exception = "connection reset by peer"
    /\ sent = 2 /\ Len(invoked) > 0
    /\ result # NoResult

\* C38: when process_chat_request has returned without an exception, no
\* tool (and no fallback search) was executed in the turn of the latest LLM
\* response: whatever was executed had its result sent to the LLM in a later
\* prompt, in the last turn of the budget as in the others.
C38_ExecutedToolsAreDelivered ==
    (pc = "done" /\ escalated = "") => invoked = << >>

\* gemini_service.py:80  the default of the streaming service, and the
\* literal without its apology
CouldNotGenerateMessages ==
    { "I could not generate a response",
      "I'm sorry, I could not generate a response." }

\* C32: when the LLM response of a turn has neither text nor a function
\* call, the request ends with the default "I could not generate a response"
\* message, without a further prompt to the LLM and without a tool executed
\* in that turn.
C32_EmptyTurnDefaultMessage ==
    (pc = "done" /\ sent > 0 /\ escalated = "" /\ parts = << >>)
        => /\ result.response \in CouldNotGenerateMessages
           /\ prompt = NoPrompt
           /\ invoked = << >>

\* ------------------------------------------------------ the streaming path

\* The largest number of chunks in the stream of the final LLM call.
MaxChunks == 2

\* gemini_service.py:71
UnknownToolMessage == "I'm sorry, I tried to use an unknown tool."

\* The function calls the LLM may request of the streaming service: the
\* declared tool web_search with its query or without it, and a tool of the
\* registry, which this service does not declare.
StreamCalls ==
    { CallPart("web_search", Arg("query", LlmSearchQuery)),
      CallPart("web_search", NoArgs),
      CallPart("get_rankings", Arg("ranking_type", "atp")) }

StreamParts == { TextPart(Answer) } \cup StreamCalls

\* The responses to the call of gemini_service.py:48.
StreamResponses == UNION { [1..n -> StreamParts] : n \in 0..MaxParts }

\* The chunks of the streamed call: text, empty text, a function call.
Chunks ==
    { TextPart(Answer), TextPart(""),
      CallPart("web_search", Arg("query", LlmSearchQuery)) }

ChunkStreams == UNION { [1..n -> Chunks] : n \in 0..MaxChunks }

\* Outcomes of the request of core/tools/web_search.py:51.
GoogleOutcomes == { "items", "no_items", "http_error", "request_error" }

\* core/tools/web_search.py:33-78  google_search returns a string for every
\* outcome of its request (one result item when there are items).
google_search(q, outcome) ==
    CASE outcome = "items" ->
            "Result 1:\nTitle: ATP Rankings\nLink: https://www.atptour.com\nSnippet: " \o q \o "\n"
      [] outcome = "no_items" ->
            "No relevant results found on the web for that query."
      [] outcome = "http_error" ->
            "An error occurred while searching: HTTP 500"
      [] OTHER ->
            "An unexpected error occurred while trying to search the web."

\* gemini_service.py:50-56, 69-80  what the generator does with the response
\* of line 48.  Only parts[0] is looked at.  Without parts line 52 raises
\* IndexError and response.text raises ValueError inside the handler of line
\* 73; a web_search call without 'query' raises KeyError at line 56; neither
\* is caught in the generator ("raises").  A text part holds an empty
\* function_call, whose name is not "web_search".
FirstResponseStep(resp) ==
    IF Len(resp) = 0 THEN "raises"
    ELSE IF resp[1].function_call.name = "web_search"
         THEN IF resp[1].function_call.args.key = "query"
              THEN "search"
              ELSE "raises"
         ELSE "unknown_tool"

\* chat_orchestrator.py:31-32  a fragment is collected and passed on.
Yield(fragment) == response_chunks' = Append(response_chunks, fragment)

\* A handler that answers with the apology in place of the fragments.
YieldApologyAlone ==
    /\ response_chunks' = << CriticalErrorMessage >>
    /\ stream_pc' = "apology_yield"

\* chat_orchestrator.py:46-48  an exception of the LLM service is answered
\* with the apology, after which the generator ends.
YieldApology ==
    /\ Yield(CriticalErrorMessage)
    /\ stream_pc' = "apology_yield"

StreamInit ==
    /\ LoopAtRest
    /\ FinderAtRest
    /\ ClientAtRest
    /\ ToolsAtRest
    /\ op = [c \in Callers |-> IdleOp]
    /\ request \in [query : Queries, session_id : { "", "A" }]
    /\ redis_store \in
          { [k \in Keys |-> Nil],
            update_history([k \in Keys |-> Nil], "A",
                           ChatMessage("user", "who won wimbledon"),
                           "Sinner won in four sets.") }
    /\ stream_pc = "send"
    /\ stream_response = << >>
    /\ final_response_stream = << >>
    /\ tool_response_content = ""
    /\ response_chunks = << >>
    /\ llm_calls = << >>
    /\ searches = << >>
    /\ consumer = "pulling"

\* gemini_service.py:48-59  the first response asks for web_search at
\* parts[0]: google_search is started.
StreamSendSearch ==
    \E resp \in StreamResponses :
        /\ stream_pc = "send"
        /\ FirstResponseStep(resp) = "search"
        /\ stream_response' = resp
        /\ llm_calls' = Append(llm_calls, [stream |-> FALSE])
        /\ searches' = Append(searches,
                              [query |-> resp[1].function_call.args.value,
                               state |-> "running"])
        /\ stream_pc' = "tool"
        /\ UNCHANGED << final_response_stream, tool_response_content,
                        response_chunks, consumer >>
        /\ UNCHANGED notStreamVars

\* gemini_service.py:48-55, 69-71  parts[0] asks for no tool or for another
\* one: the fixed message is yielded.
StreamSendUnknownTool ==
    \E resp \in StreamResponses :
        /\ stream_pc = "send"
        /\ FirstResponseStep(resp) = "unknown_tool"
        /\ stream_response' = resp
        /\ llm_calls' = Append(llm_calls, [stream |-> FALSE])
        /\ Yield(UnknownToolMessage)
        /\ stream_pc' = "last_yield"
        /\ UNCHANGED << final_response_stream, tool_response_content,
                        searches, consumer >>
        /\ UNCHANGED notStreamVars

\* gemini_service.py:48-56, 73-76  the inspection of the first response
\* raises out of the generator.
StreamSendInspectionRaises ==
    \E resp \in StreamResponses :
        /\ stream_pc = "send"
        /\ FirstResponseStep(resp) = "raises"
        /\ stream_response' = resp
        /\ llm_calls' = Append(llm_calls, [stream |-> FALSE])
        /\ YieldApology
        /\ UNCHANGED << final_response_stream, tool_response_content,
                        searches, consumer >>
        /\ UNCHANGED notStreamVars

\* gemini_service.py:45-48  the history conversion, start_chat or the first
\* send_message_async raises.
StreamSendRaises ==
    /\ stream_pc = "send"
    /\ llm_calls' = Append(llm_calls, [stream |-> FALSE])
    /\ YieldApology
    /\ UNCHANGED << stream_response, final_response_stream,
                    tool_response_content, searches, consumer >>
    /\ UNCHANGED notStreamVars

\* gemini_service.py:59  google_search returns.
SearchReturns ==
    \E outcome \in GoogleOutcomes :
        /\ stream_pc = "tool"
        /\ tool_response_content' =
              google_search(searches[Len(searches)].query, outcome)
        /\ searches' = [searches EXCEPT ![Len(searches)].state = "returned"]
        /\ stream_pc' = "send_stream"
        /\ UNCHANGED << stream_response, final_response_stream,
                        response_chunks, llm_calls, consumer >>
        /\ UNCHANGED notStreamVars

\* gemini_service.py:61-64  the tool's result is sent with stream=True.
SendFinalStream ==
    \E chunks \in ChunkStreams :
        /\ stream_pc = "send_stream"
        /\ final_response_stream' = chunks
        /\ llm_calls' = Append(llm_calls, [stream |-> TRUE])
        /\ stream_pc' = "stream"
        /\ UNCHANGED << stream_response, tool_response_content,
                        response_chunks, searches, consumer >>
        /\ UNCHANGED notStreamVars

\* gemini_service.py:61-64  the streamed call raises.
SendFinalStreamRaises ==
    /\ stream_pc = "send_stream"
    /\ llm_calls' = Append(llm_calls, [stream |-> TRUE])
    /\ YieldApology
    /\ UNCHANGED << stream_response, final_response_stream,
                    tool_response_content, searches, consumer >>
    /\ UNCHANGED notStreamVars

\* gemini_service.py:66-68  a chunk with text is yielded.
ChunkYielded ==
    /\ stream_pc = "stream"
    /\ final_response_stream # << >>
    /\ ~HasFunctionCall(Head(final_response_stream))
    /\ Head(final_response_stream).text # ""
    /\ Yield(Head(final_response_stream).text)
    /\ final_response_stream' = Tail(final_response_stream)
    /\ stream_pc' = "yield"
    /\ UNCHANGED << stream_response, tool_response_content, llm_calls,
                    searches, consumer >>
    /\ UNCHANGED notStreamVars

\* gemini_service.py:66-67  a chunk with empty text is passed over.
ChunkSkipped ==
    /\ stream_pc = "stream"
    /\ final_response_stream # << >>
    /\ ~HasFunctionCall(Head(final_response_stream))
    /\ Head(final_response_stream).text = ""
    /\ final_response_stream' = Tail(final_response_stream)
    /\ UNCHANGED << stream_pc, stream_response, tool_response_content,
                    response_chunks, llm_calls, searches, consumer >>
    /\ UNCHANGED notStreamVars

\* gemini_service.py:67, 73-76  a chunk with a function call: chunk.text
\* raises ValueError, and in the handler response.text raises ValueError too,
\* the first response holding a function call.
ChunkRaises ==
    /\ stream_pc = "stream"
    /\ final_response_stream # << >>
    /\ HasFunctionCall(Head(final_response_stream))
    /\ final_response_stream' = Tail(final_response_stream)
    /\ YieldApology
    /\ UNCHANGED << stream_response, tool_response_content, llm_calls,
                    searches, consumer >>
    /\ UNCHANGED notStreamVars

\* chat_orchestrator.py:28  the consumer asks for the next fragment.
Pull ==
    /\ stream_pc = "yield"
    /\ stream_pc' = "stream"
    /\ UNCHANGED << stream_response, final_response_stream,
                    tool_response_content, response_chunks, llm_calls,
                    searches, consumer >>
    /\ UNCHANGED notStreamVars

\* gemini_service.py:66, chat_orchestrator.py:35-44  the stream is exhausted,
\* or the generator is resumed after its only yield: it ends;
\* process_chat_request_stream joins the fragments, saves the turn when the
\* request has a session_id, and ends.
StreamComplete ==
    /\ \/ stream_pc = "stream" /\ final_response_stream = << >>
       \/ stream_pc = "last_yield"
    /\ redis_store' =
          IF request.session_id # ""
          THEN update_history(redis_store, request.session_id,
                              ChatMessage("user", request.query),
                              Concat(response_chunks))
          ELSE redis_store
    /\ stream_pc' = "done"
    /\ UNCHANGED << stream_response, final_response_stream,
                    tool_response_content, response_chunks, llm_calls,
                    searches, consumer >>
    /\ UNCHANGED << loopVars, finderVars, clientVars, parserVars, matchVars, headToHeadVars,
                    op, request >>

\* chat_orchestrator.py:38-48  the generator has ended and the call of
\* update_history raises (the Redis server cannot be reached): nothing is
\* written and the apology is yielded.
StreamSaveRaises ==
    /\ \/ stream_pc = "stream" /\ final_response_stream = << >>
       \/ stream_pc = "last_yield"
    /\ request.session_id # ""
    /\ YieldApology
    /\ UNCHANGED << stream_response, final_response_stream,
                    tool_response_content, llm_calls, searches, consumer >>
    /\ UNCHANGED notStreamVars

\* chat_orchestrator.py:48  resumed after the apology, the generator ends.
StreamEndsAfterApology ==
    /\ stream_pc = "apology_yield"
    /\ stream_pc' = "done"
    /\ UNCHANGED << stream_response, final_response_stream,
                    tool_response_content, response_chunks, llm_calls,
                    searches, consumer >>
    /\ UNCHANGED notStreamVars

\* chat_orchestrator.py:32, 48  the consumer holds a fragment and asks for
\* no other: the generators, suspended at their yield, are closed.
ConsumerStops ==
    /\ stream_pc \in { "yield", "last_yield", "apology_yield" }
    /\ consumer' = "stopped"
    /\ stream_pc' = "done"
    /\ UNCHANGED << stream_response, final_response_stream,
                    tool_response_content, response_chunks, llm_calls,
                    searches >>
    /\ UNCHANGED notStreamVars

\* gemini_service.py:48, 59, 61, 66  the consumer's task is cancelled while
\* the generator awaits: CancelledError is raised at that await.  It is not
\* an Exception, so neither google_search (web_search.py:76) nor
\* generate_response_async nor chat_orchestrator.py:46 catches it; a
\* google_search awaiting its request is cancelled with it, nothing in the
\* path running it as a task of its own or shielding it.
ConsumerCancelled ==
    /\ stream_pc \in { "send", "tool", "send_stream", "stream" }
    /\ consumer' = "cancelled"
    /\ searches' =
          IF stream_pc = "tool"
          THEN [searches EXCEPT ![Len(searches)].state = "cancelled"]
          ELSE searches
    /\ stream_pc' = "done"
    /\ UNCHANGED << stream_response, final_response_stream,
                    tool_response_content, response_chunks, llm_calls >>
    /\ UNCHANGED notStreamVars

StreamNext ==
    \/ StreamSendSearch
    \/ StreamSendUnknownTool
    \/ StreamSendInspectionRaises
    \/ StreamSendRaises
    \/ SearchReturns
    \/ SendFinalStream
    \/ SendFinalStreamRaises
    \/ ChunkYielded
    \/ ChunkSkipped
    \/ ChunkRaises
    \/ Pull
    \/ StreamComplete
    \/ StreamSaveRaises
    \/ StreamEndsAfterApology
    \/ ConsumerStops
    \/ ConsumerCancelled

StreamSpec == StreamInit /\ [][StreamNext]_vars

\* The function calls of a response, in the order of its parts: what the
\* part loop of process_chat_request executes for it (ExecutePart).
RECURSIVE RequestedCalls(_)
RequestedCalls(resp) ==
    IF Len(resp) = 0 THEN << >>
    ELSE IF HasFunctionCall(Head(resp))
         THEN << Head(resp).function_call >> \o RequestedCalls(Tail(resp))
         ELSE RequestedCalls(Tail(resp))

\* The function calls the streaming path has executed.
StreamExecutedCalls ==
    [i \in 1..Len(searches) |->
        [name |-> "web_search", args |-> Arg("query", searches[i].query)]]

\* C12: once the streaming path has left the turn of its first response (it
\* made its streamed call, or answered without one), it has executed every
\* function call of that response, as the non-streaming loop does; and a
\* function call that arrives in answer to the tool results opens another
\* tool turn instead of ending the request.
C12_StreamingFollowsLoop ==
    /\ (Len(llm_calls) = 2 \/ stream_pc = "last_yield")
          => StreamExecutedCalls = RequestedCalls(stream_response)
    /\ (stream_pc = "apology_yield" /\ Len(llm_calls) = 2
           /\ final_response_stream # << >>)
          => Len(searches) = 2

\* C13: a google_search that was started is never cancelled: it returns,
\* whatever the consumer does.
C13_StartedToolNotCancelled ==
    \A i \in 1..Len(searches) : searches[i].state # "cancelled"

\* ------------------------------------------------ the data-source client

\* api_client.py:38  stop=stop_after_attempt(4)
stop_after_attempt == 4

\* The outcomes of one attempt (api_client.py:76-85): a JSON body, a
\* timeout, a refused connection, a 5xx or a 4xx status, a body that is not
\* JSON.
AttemptOutcomes ==
    { "json", "timeout", "connect_error", "status_5xx", "status_4xx", "bad_json" }

\* The exception an attempt raises (api_client.py:78-85): client.get raises
\* the httpx exception, raise_for_status HTTPStatusError, response.json a
\* JSONDecodeError, which is a ValueError.
ExceptionOf(outcome) ==
    CASE outcome = "timeout" -> "TimeoutException"
      [] outcome = "connect_error" -> "ConnectError"
      [] outcome = "status_5xx" -> "HTTPStatusError"
      [] outcome = "status_4xx" -> "HTTPStatusError"
      [] outcome = "bad_json" -> "JSONDecodeError"
      [] OTHER -> ""

\* api_client.py:18-21
RETRYABLE_EXCEPTIONS == { "TimeoutException", "ConnectError" }

\* api_client.py:41  the retry condition, evaluated on a failed attempt:
\* retry_if_exception_type(T) tests isinstance(e, T), and retry_any stops at
\* the first test that is true.  The second test is given the function
\* is_retryable_status_code (lines 24-29) where a class is expected, so for an
\* exception that is no RETRYABLE_EXCEPTIONS isinstance itself raises
\* TypeError; the function is never called.
RetryCondition(exc) ==
    IF exc \in RETRYABLE_EXCEPTIONS THEN "retry" ELSE "TypeError"

\* api_client.py:33-48  what the decorator does after attempt number n: the
\* value is returned, the call is repeated, or an exception leaves
\* make_api_request (RetryError once the attempts are used up, reraise not
\* being set).
AfterAttempt(n, outcome) ==
    IF outcome = "json" THEN [action |-> "return", exc |-> ""]
    ELSE IF RetryCondition(ExceptionOf(outcome)) = "retry"
         THEN IF n >= stop_after_attempt
              THEN [action |-> "raise", exc |-> "RetryError"]
              ELSE [action |-> "retry", exc |-> ""]
         ELSE [action |-> "raise", exc |-> RetryCondition(ExceptionOf(outcome))]

\* What a call returned, or the exception it raised.
ReturnedValue(v) == [kind |-> "returned", value |-> v, exc |-> ""]
RaisedException(exc) == [kind |-> "raised", value |-> 0, exc |-> exc]

\* ------------------------------------------------- the player resolution

\* The largest number of results the upstream returns to the searches of
\* one resolution.
MaxResults == 2

\* Strings are sequences of characters.
Str_R_Federer == << "R", ".", " ", "F", "e", "d", "e", "r", "e", "r" >>
Str_Roger_Federer == << "R", "o", "g", "e", "r", " ", "F", "e", "d", "e", "r", "e", "r" >>
Str_Federer_Roger == << "F", "e", "d", "e", "r", "e", "r", ",", " ", "R", "o", "g", "e", "r" >>
Str_Federer == << "F", "e", "d", "e", "r", "e", "r" >>
Str_Dot == << "." >>

\* The names resolved: an initial with its period, the full name, the name
\* written surname first with a comma, the surname alone, and a name without
\* any letter.
PlayerNames ==
    { Str_R_Federer, Str_Roger_Federer, Str_Federer_Roger, Str_Federer, Str_Dot }

\* The results of the upstream search (player_finder.py:48-53): tennis
\* players under two ids, one of them listed under two spellings, a player
\* of another sport, and an entity that is not a player.  entity.sport
\* stands for entity["sport"]["name"].
SearchResult(type, id, name, sport) ==
    [type |-> type, entity |-> [id |-> id, name |-> name, sport |-> sport]]

UpstreamResults ==
    { SearchResult("player", 1, Str_Roger_Federer, "Tennis"),
      SearchResult("player", 1, Str_Federer_Roger, "Tennis"),
      SearchResult("player", 2, Str_R_Federer, "Tennis"),
      SearchResult("player", 3, Str_Roger_Federer, "Football"),
      SearchResult("team", 4, Str_Roger_Federer, "Tennis") }

\* The "results" lists of at most n entries.
ResultLists(n) == UNION { [1..k -> UpstreamResults] : k \in 0..n }

\* A search that has not completed.
Pending == [state |-> "pending", results |-> << >>]
Completed(results) == [state |-> "completed", results |-> results]

\* str.lower() on the characters in use
lower_char(c) ==
    CASE c = "R" -> "r"
      [] c = "F" -> "f"
      [] c = "N" -> "n"
      [] c = "A" -> "a"
      [] c = "D" -> "d"
      [] c = "E" -> "e"
      [] c = "I" -> "i"
      [] c = "L" -> "l"
      [] c = "M" -> "m"
      [] c = "O" -> "o"
      [] c = "S" -> "s"
      [] c = "T" -> "t"
      [] c = "U" -> "u"
      [] OTHER -> c

lower(str) == [i \in 1..Len(str) |-> lower_char(str[i])]

\* str.replace(ch, '')
remove(str, ch) == SelectSeq(str, LAMBDA c : c # ch)

\* The length of the run of non-blank characters a string starts with.
RECURSIVE WordLen(_)
WordLen(str) ==
    IF Len(str) = 0 \/ Head(str) = " " THEN 0 ELSE 1 + WordLen(Tail(str))

\* str.split(): the words between the blanks, none of them empty
RECURSIVE split(_)
split(str) ==
    IF Len(str) = 0 THEN << >>
    ELSE IF Head(str) = " " THEN split(Tail(str))
    ELSE << SubSeq(str, 1, WordLen(str)) >>
             \o split(SubSeq(str, WordLen(str) + 1, Len(str)))

SetOf(seq) == { seq[i] : i \in 1..Len(seq) }

startswith(str, prefix) ==
    Len(prefix) <= Len(str) /\ SubSeq(str, 1, Len(prefix)) = prefix

\* player_finder.py:26  the query is lower-cased and its periods removed
QueryParts(name) == SetOf(split(remove(lower(name), ".")))

\* player_finder.py:53-54  a result's name is lower-cased and its commas and
\* periods removed
ApiNameParts(api_name) ==
    SetOf(split(remove(remove(lower(api_name), ","), ".")))

\* player_finder.py:62-64
PartsMatch(q_part, a_part) ==
    \/ q_part = a_part
    \/ Len(a_part) = 1 /\ startswith(q_part, a_part)
    \/ Len(q_part) = 1 /\ startswith(a_part, q_part)

\* player_finder.py:57-70
AllPartsMatched(query_parts, api_name_parts) ==
    \A q_part \in query_parts :
        \E a_part \in api_name_parts : PartsMatch(q_part, a_part)

\* player_finder.py:49-51  the results that are looked at
IsConsidered(search_result) == search_result.type = "player" /\ search_result.entity.id # 0

\* player_finder.py:48-73  the entities one search contributes
RECURSIVE MatchesIn(_, _)
MatchesIn(results, query_parts) ==
    IF Len(results) = 0 THEN << >>
    ELSE LET search_result == Head(results)
             rest == MatchesIn(Tail(results), query_parts)
         IN  IF /\ IsConsidered(search_result)
                /\ AllPartsMatched(query_parts, ApiNameParts(search_result.entity.name))
             THEN << search_result.entity >> \o rest
             ELSE rest

\* player_finder.py:44-73  potential_matches over all searches; a search
\* without results contributes nothing.
RECURSIVE PotentialMatches(_, _)
PotentialMatches(results_of, query_parts) ==
    IF Len(results_of) = 0 THEN << >>
    ELSE MatchesIn(Head(results_of).results, query_parts)
            \o PotentialMatches(Tail(results_of), query_parts)

NotFound == [kind |-> "not_found", value |-> 0, exc |-> ""]
FoundId(id) == [kind |-> "id", value |-> id, exc |-> ""]

\* A resolution that answers with the first match.
FirstMatch(potential_matches) ==
    IF Len(potential_matches) = 0 THEN NotFound
    ELSE FoundId(potential_matches[1].id)

\* player_finder.py:75-93  the only id among the matches, or None
UniqueMatch(potential_matches) ==
    LET unique_matches == { potential_matches[i].id :
                               i \in 1..Len(potential_matches) }
    IN  IF Cardinality(unique_matches) = 1
        THEN FoundId(CHOOSE id \in unique_matches : TRUE)
        ELSE NotFound

\* player_finder.py:31-33, 40  the full name, and the last word of a name of
\* several words
SearchTerms(name) ==
    IF Len(split(name)) > 1
    THEN << name, split(name)[Len(split(name))] >>
    ELSE << name >>

\* The results received so far.
NumReceived(results_of) ==
    LET RECURSIVE Sum(_)
        Sum(rs) == IF Len(rs) = 0 THEN 0
                   ELSE Len(Head(rs).results) + Sum(Tail(rs))
    IN  Sum(results_of)

FinderInit ==
    /\ LoopAtRest
    /\ StreamAtRest
    /\ ClientAtRest
    /\ ToolsAtRest
    /\ SessionAtRest
    /\ finder_pc = "start"
    /\ player_name \in PlayerNames
    /\ search_terms = << >>
    /\ api_results = << >>
    /\ finder_result = NoOutcome

\* player_finder.py:26-28  a name without a word
FindNoQueryParts ==
    /\ finder_pc = "start"
    /\ QueryParts(player_name) = { }
    /\ finder_result' = NotFound
    /\ finder_pc' = "done"
    /\ UNCHANGED << player_name, search_terms, api_results >>
    /\ UNCHANGED notFinderVars

\* player_finder.py:26-42  the searches are started, all of them before any
\* is awaited.
FindStartSearches ==
    /\ finder_pc = "start"
    /\ QueryParts(player_name) # { }
    /\ search_terms' = SearchTerms(player_name)
    /\ api_results' = [i \in 1..Len(SearchTerms(player_name)) |-> Pending]
    /\ finder_pc' = "gather"
    /\ UNCHANGED << player_name, finder_result >>
    /\ UNCHANGED notFinderVars

\* player_finder.py:39, api_client.py:78-85  a search returns its JSON body.
SearchCompletes ==
    \E i \in 1..Len(api_results), n \in 1..stop_after_attempt,
       results \in ResultLists(MaxResults - NumReceived(api_results)) :
        /\ finder_pc = "gather"
        /\ api_results[i] = Pending
        /\ AfterAttempt(n, "json").action = "return"
        /\ api_results' = [api_results EXCEPT ![i] = Completed(results)]
        /\ UNCHANGED << finder_pc, player_name, search_terms, finder_result >>
        /\ UNCHANGED notFinderVars

\* player_finder.py:39-42  make_api_request raises: gather passes the
\* exception on to find_player_id_by_name, which has no handler.
SearchRaises ==
    \E i \in 1..Len(api_results), n \in 1..stop_after_attempt,
       outcome \in AttemptOutcomes :
        /\ finder_pc = "gather"
        /\ api_results[i] = Pending
        /\ AfterAttempt(n, outcome).action = "raise"
        /\ finder_result' = RaisedException(AfterAttempt(n, outcome).exc)
        /\ finder_pc' = "done"
        /\ UNCHANGED << player_name, search_terms, api_results >>
        /\ UNCHANGED notFinderVars

\* player_finder.py:42-93  every search has returned: the matches are
\* collected and the answer is given.
FindReturns ==
    /\ finder_pc = "gather"
    /\ \A i \in 1..Len(api_results) : api_results[i] # Pending
    /\ finder_result' =
          UniqueMatch(PotentialMatches(api_results, QueryParts(player_name)))
    /\ finder_pc' = "done"
    /\ UNCHANGED << player_name, search_terms, api_results >>
    /\ UNCHANGED notFinderVars

FinderNext ==
    \/ FindNoQueryParts
    \/ FindStartSearches
    \/ SearchCompletes
    \/ SearchRaises
    \/ FindReturns

FinderSpec == FinderInit /\ [][FinderNext]_vars


\* The results the searches of the resolution have returned.
ReceivedResults ==
    UNION { SetOf(api_results[i].results) : i \in 1..Len(api_results) }

\* The ids of the candidates: the player results received whose name
\* matches the query.
CandidateIds ==
    { r.entity.id :
        r \in { c \in ReceivedResults :
                  /\ IsConsidered(c)
                  /\ AllPartsMatched(QueryParts(player_name),
                                     ApiNameParts(c.entity.name)) } }

\* C14: when find_player_id_by_name returns, it returns an id only if the
\* candidates of all its searches together have exactly one id, and then
\* that id; with no candidate or with several ids it returns None.
C14_UniqueCandidateOnly ==
    (finder_pc = "done" /\ finder_result.kind # "raised") =>
        IF Cardinality(CandidateIds) = 1
        THEN finder_result.kind = "id" /\ finder_result.value \in CandidateIds
        ELSE finder_result.kind = "not_found"

\* C14 witness: two searches returned candidates under different ids, and
\* the answer was None.
C14_Witness ==
    /\ finder_pc = "done" /\ finder_result.kind = "not_found"
    /\ Len(api_results) = 2
    /\ Cardinality(CandidateIds) = 2

\* ------------------------ the player resolution of tennis_api_client.py

\* `part in api_name` on strings
IsSubstring(part, str) ==
    \E k \in 0..(Len(str) - Len(part)) : SubSeq(str, k + 1, k + Len(part)) = part

\* tennis_api_client.py:234  original_name_parts
OriginalNameParts(name) == split(lower(name))

\* tennis_api_client.py:236-241  set(search_terms): the name, and the last
\* and the first word of a name of several words
LegacySearchTerms(name) ==
    LET original_name_parts == OriginalNameParts(name)
    IN  IF Len(original_name_parts) > 1
        THEN { name, original_name_parts[Len(original_name_parts)],
               original_name_parts[1] }
        ELSE { name }

\* The orders in which a set can be iterated.
Orderings(S) ==
    { order \in [1..Cardinality(S) -> S] :
        \A m, n \in 1..Cardinality(S) : order[m] = order[n] => m = n }

\* tennis_api_client.py:249-256  the result is a tennis player whose name
\* contains every part of the query (the ids tried are integers)
LegacyIsMatch(search_result, original_name_parts) ==
    /\ search_result.type = "player"
    /\ search_result.entity.sport = "Tennis"
    /\ \A k \in 1..Len(original_name_parts) :
          IsSubstring(original_name_parts[k], lower(search_result.entity.name))

\* tennis_api_client.py:248-258  the first match among the results of one
\* search, if there is one
RECURSIVE LegacyFirstMatch(_, _)
LegacyFirstMatch(results, original_name_parts) ==
    IF Len(results) = 0 THEN NotFound
    ELSE IF LegacyIsMatch(Head(results), original_name_parts)
         THEN FoundId(Head(results).entity.id)
         ELSE LegacyFirstMatch(Tail(results), original_name_parts)

\* tennis_api_client.py:243-246  the search's payload as the loop sees it:
\* its "results", none when the payload is an error.
LegacySearchData(api, results) ==
    IF "error" \in DOMAIN make_request_async("api/tennis/search/", api)
    THEN [state |-> "error", results |-> << >>]
    ELSE Completed(results)

\* The outcomes of _make_request_async (tennis_api_client.py:22-45).
LegacyApiOutcomes == { "json", "http_error", "request_error", "bad_json" }

\* tennis_api_client.py:230-241  the terms are set up; the set is iterated
\* in an order that is not determined.
LegacyStart ==
    \E order \in Orderings(LegacySearchTerms(player_name)) :
        /\ finder_pc = "start"
        /\ search_terms' = order
        /\ finder_pc' = "search"
        /\ UNCHANGED << player_name, api_results, finder_result >>
        /\ UNCHANGED notFinderVars

\* tennis_api_client.py:241-258  the search for the next term holds a match:
\* its id is returned at once.
LegacySearchFinds ==
    \E api \in LegacyApiOutcomes,
       results \in ResultLists(MaxResults - NumReceived(api_results)) :
        LET search_data == LegacySearchData(api, results)
            found == LegacyFirstMatch(search_data.results,
                                      OriginalNameParts(player_name))
        IN  /\ finder_pc = "search"
            /\ search_terms # << >>
            /\ found # NotFound
            /\ api_results' = Append(api_results, search_data)
            /\ search_terms' = Tail(search_terms)
            /\ finder_result' = found
            /\ finder_pc' = "done"
            /\ UNCHANGED player_name
            /\ UNCHANGED notFinderVars

\* tennis_api_client.py:241-256  the search failed or holds no match: the
\* next term is tried.
LegacySearchContinues ==
    \E api \in LegacyApiOutcomes,
       results \in ResultLists(MaxResults - NumReceived(api_results)) :
        LET search_data == LegacySearchData(api, results)
            found == LegacyFirstMatch(search_data.results,
                                      OriginalNameParts(player_name))
        IN  /\ finder_pc = "search"
            /\ search_terms # << >>
            /\ found = NotFound
            /\ api_results' = Append(api_results, search_data)
            /\ search_terms' = Tail(search_terms)
            /\ UNCHANGED << finder_pc, player_name, finder_result >>
            /\ UNCHANGED notFinderVars

\* tennis_api_client.py:260-261  no term is left.
LegacyReturnsNone ==
    /\ finder_pc = "search"
    /\ search_terms = << >>
    /\ finder_result' = NotFound
    /\ finder_pc' = "done"
    /\ UNCHANGED << player_name, search_terms, api_results >>
    /\ UNCHANGED notFinderVars

LegacyFinderNext ==
    \/ LegacyStart
    \/ LegacySearchFinds
    \/ LegacySearchContinues
    \/ LegacyReturnsNone

LegacyFinderSpec == FinderInit /\ [][LegacyFinderNext]_vars

\* The ids of the results received that match the name as
\* _find_player_id_by_name matches.
LegacyCandidateIds ==
    { r.entity.id :
        r \in { c \in ReceivedResults :
                  LegacyIsMatch(c, OriginalNameParts(player_name)) } }

\* C15: when _find_player_id_by_name, which get_h2h_events and
\* find_match_and_get_details of TOOL_REGISTRY call, returns an id, the
\* results it received held matching candidates under that one id only.
C15_RegistryToolsResolveUniquely ==
    (finder_pc = "done" /\ finder_result.kind = "id") =>
        LegacyCandidateIds = { finder_result.value }

\* The entities find_player_id_by_name counted as matches.
CountedAsMatch ==
    SetOf(PotentialMatches(api_results, QueryParts(player_name)))

\* C16: with the query tokenized as the candidates' names are (lower case,
\* punctuation removed), a player result is counted as a match exactly when
\* every token of the query equals a token of its name or is matched by an
\* initial.
C16_MatchOnSameTokenization ==
    (finder_pc = "done" /\ finder_result.kind # "raised") =>
        \A r \in ReceivedResults :
            IsConsidered(r) =>
                (r.entity \in CountedAsMatch
                    <=> AllPartsMatched(ApiNameParts(player_name),
                                        ApiNameParts(r.entity.name)))

\* C17: every result that find_player_id_by_name counts as a match, and so
\* the id it returns, is a result of type "player" whose sport is tennis.
C17_OnlyTennisPlayersCount ==
    (finder_pc = "done" /\ finder_result.kind # "raised") =>
        /\ \A r \in ReceivedResults :
              r.entity \in CountedAsMatch =>
                  r.type = "player" /\ r.entity.sport = "Tennis"
        /\ finder_result.kind = "id" =>
              \E r \in ReceivedResults :
                  /\ r.entity.id = finder_result.value
                  /\ r.type = "player" /\ r.entity.sport = "Tennis"

\* C18: find_player_id_by_name never raises: whatever becomes of its
\* searches, it ends by returning an id or None.
C18_FailedSearchIsNoResult ==
    finder_pc = "done" => finder_result.kind \in { "id", "not_found" }

\* The searches that have not completed.
PendingSearches == { i \in 1..Len(api_results) : api_results[i] = Pending }

\* list(reversed(...))
ReverseSeq(seq) == [i \in 1..Len(seq) |-> seq[Len(seq) + 1 - i]]

\* C33: every search of find_player_id_by_name is started before any of
\* them is waited for; when the resolution is over every search it started
\* has completed (the one whose exception it passes on included, so none
\* other is still under way); and the answer is the same with the results of
\* the searches taken in the opposite order.
C33_AllSearchesAwaited ==
    /\ finder_pc = "gather" =>
          /\ Len(api_results) = Len(SearchTerms(player_name))
          /\ search_terms = SearchTerms(player_name)
    /\ (finder_pc = "done" /\ finder_result.kind \in { "id", "not_found" }) =>
          /\ PendingSearches = { }
          /\ finder_result =
                UniqueMatch(PotentialMatches(ReverseSeq(api_results),
                                             QueryParts(player_name)))
    /\ (finder_pc = "done" /\ finder_result.kind = "raised") =>
          Cardinality(PendingSearches) <= 1

\* ------------------------------ get_general_schedule and make_api_request

\* The dates asked for: a keyword of date_map, a date in the format
\* %Y-%m-%d, and one in neither.
DateInputs == { "today", "2024-07-01", "next friday" }

\* tennis_tools.py:114-117  the date is a key of date_map, or strptime reads
\* it with "%Y-%m-%d"; otherwise strptime raises ValueError.
DateParses(d) == d \in { "today", "tomorrow", "yesterday" } \/ d = "2024-07-01"

\* tennis_tools.py:123
InvalidDateError ==
    [error |-> "Invalid date format. Please use 'today', 'tomorrow', 'yesterday', or YYYY-MM-DD."]

\* JSON values as Python holds them: None, a str, an int, a dict, a list.
\* A dict is a function on its keys; the fields differ by kind, so that
\* values of different kinds are unequal.
JNull == [t |-> "null"]
JStr(str) == [t |-> "str", s |-> str]
JNum(num) == [t |-> "num", n |-> num]
JObj(dict) == [t |-> "obj", d |-> dict]
JArr(list) == [t |-> "arr", a |-> list]

\* {}
EmptyDict == << >>

\* dict.get(key, default)
Get(dict, key, default) == IF key \in DOMAIN dict THEN dict[key] ELSE default

\* isinstance(x, dict): x has a method get
IsDict(x) == x.t = "obj"

\* bool(x)
Truthy(x) ==
    CASE x.t = "null" -> FALSE
      [] x.t = "str" -> x.s # ""
      [] x.t = "num" -> x.n # 0
      [] x.t = "obj" -> DOMAIN x.d # {}
      [] x.t = "arr" -> Len(x.a) > 0

\* data_parser.py:33, tennis_api_client.py:55  the events processed at most
MAX_EVENTS_TO_PROCESS == 25

\* data_parser.py:43  (tournament_info.get("category") or {})
CategoryOrEmpty(tournament_info) ==
    IF Truthy(Get(tournament_info.d, "category", JNull))
    THEN Get(tournament_info.d, "category", JNull)
    ELSE JObj(EmptyDict)

\* data_parser.py:34-46  the body of the loop raises AttributeError: a get is
\* called on a value that is not a dict.
EventRaises(event) ==
    \/ ~IsDict(event)
    \/ ~IsDict(Get(event.d, "tournament", JObj(EmptyDict)))
    \/ ~IsDict(CategoryOrEmpty(Get(event.d, "tournament", JObj(EmptyDict))))
    \/ ~IsDict(Get(event.d, "homeTeam", JObj(EmptyDict)))
    \/ ~IsDict(Get(event.d, "awayTeam", JObj(EmptyDict)))
    \/ ~IsDict(Get(event.d, "status", JObj(EmptyDict)))

\* A simplification that keeps the event as it is.
SimplifyEventKeepsAll(event) == event.d

\* data_parser.py:34-50  one simplified event
SimplifyEvent(event) ==
    LET tournament_info == Get(event.d, "tournament", JObj(EmptyDict))
        home_team_info == Get(event.d, "homeTeam", JObj(EmptyDict))
        away_team_info == Get(event.d, "awayTeam", JObj(EmptyDict))
        status_info == Get(event.d, "status", JObj(EmptyDict))
        home_score_info == Get(event.d, "homeScore", JObj(EmptyDict))
        away_score_info == Get(event.d, "awayScore", JObj(EmptyDict))
    IN  [tournament |-> Get(tournament_info.d, "name", JNull),
         category |-> Get(CategoryOrEmpty(tournament_info).d, "name", JNull),
         home_player |-> Get(home_team_info.d, "name", JNull),
         away_player |-> Get(away_team_info.d, "name", JNull),
         status |-> Get(status_info.d, "description", JStr("Scheduled")),
         event_id |-> Get(event.d, "id", JNull),
         home_score |-> home_score_info,
         away_score |-> away_score_info]

\* events[:25]
FirstEvents(events) ==
    SubSeq(events, 1, IF Len(events) < MAX_EVENTS_TO_PROCESS
                      THEN Len(events) ELSE MAX_EVENTS_TO_PROCESS)

\* A summary that reports the absence of events as an error.
EventListSummaryEmptyIsError(raw_data, failure_message) ==
    [error |-> JStr(failure_message)]

\* data_parser.py:14-60 and tennis_api_client.py:48-83, which differ in the
\* message of the error payload only.  events[:25] of a value that is not a
\* list raises as well.
EventListSummary(raw_data, failure_message) ==
    IF "error" \in DOMAIN raw_data THEN raw_data
    ELSE LET events == Get(raw_data, "events", JArr(<< >>))
         IN  IF ~Truthy(events)
             THEN [summary |-> JStr("No events found for this query.")]
             ELSE IF events.t # "arr"
                     \/ \E i \in 1..Len(FirstEvents(events.a)) :
                           EventRaises(events.a[i])
             THEN [error |-> JStr(failure_message)]
             ELSE [total_events_found |-> JNum(Len(events.a)),
                   events_returned |-> JNum(Len(FirstEvents(events.a))),
                   events_preview |->
                       JArr([i \in 1..Len(FirstEvents(events.a)) |->
                               JObj(SimplifyEvent(events.a[i]))])]

\* data_parser.py:14-60  parse_event_list
parse_event_list(raw_data) ==
    EventListSummary(raw_data,
                     "Failed to parse the event list from the Tennis API.")

\* tennis_api_client.py:48-83  _process_event_list
process_event_list(raw_data) ==
    EventListSummary(raw_data, "Failed to parse the data from the Tennis API.")

\* An event as the upstream sends it; its id tells the events apart.
UpstreamEvent(id) ==
    JObj([id |-> JNum(id),
          tournament |-> JObj([name |-> JStr("Wimbledon"),
                               category |-> JObj([name |-> JStr("ATP")])]),
          homeTeam |-> JObj([name |-> JStr("Jannik Sinner"), id |-> JNum(1)]),
          awayTeam |-> JObj([name |-> JStr("Carlos Alcaraz"), id |-> JNum(2)]),
          status |-> JObj([description |-> JStr("Ended")]),
          homeScore |-> JObj([period1 |-> JNum(6)]),
          awayScore |-> JObj([period1 |-> JNum(4)]),
          winnerCode |-> JNum(1)])

\* The JSON bodies of the schedule endpoint: no events, one event.
RawSchedules ==
    { [events |-> JArr(<< >>)], [events |-> JArr(<< UpstreamEvent(7001) >>)] }

\* tennis_tools.py:122  `except ValueError` catches ValueError and its
\* subclasses.
IsValueError(exc) == exc \in { "ValueError", "JSONDecodeError" }

ClientInit ==
    /\ LoopAtRest
    /\ StreamAtRest
    /\ FinderAtRest
    /\ SessionAtRest
    /\ ToolsAtRest
    /\ client_pc = "tool"
    /\ date \in DateInputs
    /\ attempt_number = 0
    /\ attempts = << >>
    /\ request_result = NoOutcome
    /\ tool_result = NoOutcome

\* tennis_tools.py:113-117, 122-123  the date cannot be read.
ScheduleInvalidDate ==
    /\ client_pc = "tool"
    /\ ~DateParses(date)
    /\ tool_result' = ReturnedValue(InvalidDateError)
    /\ client_pc' = "done"
    /\ UNCHANGED << date, attempt_number, attempts, request_result >>
    /\ UNCHANGED notClientVars

\* tennis_tools.py:113-120  make_api_request is called.
ScheduleRequest ==
    /\ client_pc = "tool"
    /\ DateParses(date)
    /\ client_pc' = "request"
    /\ UNCHANGED << date, attempt_number, attempts, request_result, tool_result >>
    /\ UNCHANGED notClientVars

\* api_client.py:76-85  an attempt succeeds: its JSON body is returned.
AttemptReturns ==
    \E raw_data \in RawSchedules :
        /\ client_pc = "request"
        /\ AfterAttempt(attempt_number + 1, "json").action = "return"
        /\ attempt_number' = attempt_number + 1
        /\ attempts' = Append(attempts, "json")
        /\ request_result' = ReturnedValue(raw_data)
        /\ client_pc' = "returning"
        /\ UNCHANGED << date, tool_result >>
        /\ UNCHANGED notClientVars

\* api_client.py:33-48, 76-85  an attempt fails and the call is repeated.
AttemptRetried ==
    \E outcome \in AttemptOutcomes :
        /\ client_pc = "request"
        /\ AfterAttempt(attempt_number + 1, outcome).action = "retry"
        /\ attempt_number' = attempt_number + 1
        /\ attempts' = Append(attempts, outcome)
        /\ UNCHANGED << client_pc, date, request_result, tool_result >>
        /\ UNCHANGED notClientVars

\* api_client.py:33-48, 76-85  an attempt fails and an exception leaves
\* make_api_request.
AttemptRaises ==
    \E outcome \in AttemptOutcomes :
        /\ client_pc = "request"
        /\ AfterAttempt(attempt_number + 1, outcome).action = "raise"
        /\ attempt_number' = attempt_number + 1
        /\ attempts' = Append(attempts, outcome)
        /\ request_result' =
              RaisedException(AfterAttempt(attempt_number + 1, outcome).exc)
        /\ client_pc' = "returning"
        /\ UNCHANGED << date, tool_result >>
        /\ UNCHANGED notClientVars

\* tennis_tools.py:120-121  the body is parsed and returned.
ScheduleReturns ==
    /\ client_pc = "returning"
    /\ request_result.kind = "returned"
    /\ tool_result' = ReturnedValue(parse_event_list(request_result.value))
    /\ client_pc' = "done"
    /\ UNCHANGED << date, attempt_number, attempts, request_result >>
    /\ UNCHANGED notClientVars

\* tennis_tools.py:120-123  make_api_request raised: a ValueError is
\* answered with the date-format error, any other exception leaves
\* get_general_schedule.
ScheduleRequestRaised ==
    /\ client_pc = "returning"
    /\ request_result.kind = "raised"
    /\ tool_result' =
          IF IsValueError(request_result.exc)
          THEN ReturnedValue(InvalidDateError)
          ELSE RaisedException(request_result.exc)
    /\ client_pc' = "done"
    /\ UNCHANGED << date, attempt_number, attempts, request_result >>
    /\ UNCHANGED notClientVars

ClientNext ==
    \/ ScheduleInvalidDate
    \/ ScheduleRequest
    \/ AttemptReturns
    \/ AttemptRetried
    \/ AttemptRaises
    \/ ScheduleReturns
    \/ ScheduleRequestRaised

ClientSpec == ClientInit /\ [][ClientNext]_vars

\* The outcome of the latest attempt.
LastAttempt == attempts[Len(attempts)]

\* The failures that pass: a timeout, a connection error, a 5xx status.
TransientFailures == { "timeout", "connect_error", "status_5xx" }

\* C19: make_api_request makes at most 4 attempts; only a timeout, a
\* connection error or a 5xx status is followed by another attempt (a
\* success, a 4xx status and malformed JSON are not); and it gives up on
\* such a failure only when the 4 attempts are used up.
C19_RetryPolicy ==
    /\ Len(attempts) <= 4
    /\ \A k \in 1..(Len(attempts) - 1) : attempts[k] \in TransientFailures
    /\ (client_pc \in { "returning", "done" } /\ Len(attempts) > 0
           /\ LastAttempt \in TransientFailures)
          => Len(attempts) = 4

\* C20: when the request to the upstream has failed, make_api_request has
\* returned a payload with an "error" key, and the calling tool returns one
\* too: no exception is raised into the tool or out of it.
C20_FailuresAreErrorPayloads ==
    (client_pc \in { "returning", "done" } /\ Len(attempts) > 0
        /\ LastAttempt # "json")
       => /\ request_result.kind = "returned"
          /\ "error" \in DOMAIN request_result.value
          /\ tool_result.kind # "raised"

\* ------------------------------------------------------- the session store

\* A caller is free to call a function of session_manager.
Free(c) == op[c].pc \in { "idle", "done" }

SessionInit ==
    /\ LoopAtRest
    /\ StreamAtRest
    /\ FinderAtRest
    /\ ClientAtRest
    /\ ToolsAtRest
    /\ SessionAtRest

\* session_manager.py:37-53  get_history
GetHistory(c) ==
    \E session_id \in SessionIds :
        LET r == GetHistoryCall(redis_store, session_id)
        IN  /\ Free(c)
            /\ op' = [op EXCEPT ![c] =
                        [name |-> "get_history", session_id |-> session_id,
                         pc |-> "done", history |-> r.returned,
                         reads |-> r.reads, writes |-> 0]]
            /\ UNCHANGED << redis_store, request >>
            /\ UNCHANGED notSessionVars

\* session_manager.py:89-96  update_history up to its call of _save_history:
\* the history is read and the two messages are appended.
UpdateHistoryReads(c) ==
    \E session_id \in SessionIds, q \in UserQueries, content \in ModelResponses :
        LET r == GetHistoryCall(redis_store, session_id)
        IN  /\ Free(c)
            /\ Len(r.returned) + 2 <= MaxHistory
            /\ op' = [op EXCEPT ![c] =
                        [name |-> "update_history", session_id |-> session_id,
                         pc |-> "save",
                         history |-> UpdatedHistory(r.returned,
                                        ChatMessage("user", q), content),
                         reads |-> r.reads, writes |-> 0]]
            /\ UNCHANGED << redis_store, request >>
            /\ UNCHANGED notSessionVars

\* session_manager.py:98, 56-67  update_history saves the history it holds.
UpdateHistorySaves(c) ==
    LET r == SaveHistoryCall(redis_store, op[c].session_id, op[c].history)
    IN  /\ op[c].pc = "save"
        /\ redis_store' = r.store
        /\ op' = [op EXCEPT ![c].pc = "done", ![c].writes = r.writes]
        /\ UNCHANGED request
        /\ UNCHANGED notSessionVars

\* session_manager.py:70-82  set_initial_context
SetInitialContext(c) ==
    \E session_id \in SessionIds, context \in Contexts :
        LET r == SaveHistoryCall(redis_store, session_id, InitialHistory(context))
        IN  /\ Free(c)
            /\ redis_store' = r.store
            /\ op' = [op EXCEPT ![c] =
                        [name |-> "set_initial_context",
                         session_id |-> session_id, pc |-> "done",
                         history |-> InitialHistory(context),
                         reads |-> 0, writes |-> r.writes]]
            /\ UNCHANGED request
            /\ UNCHANGED notSessionVars

\* session_manager.py:101-104  clear_history asks whether the key exists.
ClearHistoryExists(c) ==
    \E session_id \in SessionIds :
        /\ Free(c)
        /\ op' = [op EXCEPT ![c] =
                    [name |-> "clear_history", session_id |-> session_id,
                     pc |-> IF redis_store[Key(session_id)] # Nil
                            THEN "delete" ELSE "done",
                     history |-> << >>, reads |-> 1, writes |-> 0]]
        /\ UNCHANGED << redis_store, request >>
        /\ UNCHANGED notSessionVars

\* session_manager.py:105-106  clear_history deletes the key.
ClearHistoryDeletes(c) ==
    /\ op[c].pc = "delete"
    /\ redis_store' = [redis_store EXCEPT ![Key(op[c].session_id)] = Nil]
    /\ op' = [op EXCEPT ![c].pc = "done", ![c].writes = 1]
    /\ UNCHANGED request
    /\ UNCHANGED notSessionVars

\* session_manager.py:34, 50, 66  a key reaches its expiration time:
\* Redis removes it.
KeyExpires ==
    \E k \in Keys :
        /\ redis_store[k] # Nil
        /\ redis_store' = [redis_store EXCEPT ![k] = Nil]
        /\ UNCHANGED << op, request >>
        /\ UNCHANGED notSessionVars

SessionNext ==
    \/ \E c \in Callers : GetHistory(c)
    \/ \E c \in Callers : UpdateHistoryReads(c)
    \/ \E c \in Callers : UpdateHistorySaves(c)
    \/ \E c \in Callers : SetInitialContext(c)
    \/ \E c \in Callers : ClearHistoryExists(c)
    \/ \E c \in Callers : ClearHistoryDeletes(c)
    \/ KeyExpires

SessionSpec == SessionInit /\ [][SessionNext]_vars

\* C21: a get_history with an empty session_id has returned the empty
\* history and has issued no read; an update_history with an empty
\* session_id issues neither a read nor a write; and nothing is ever stored
\* under the key of the empty session_id.
C21_EmptySessionIsNoOp ==
    /\ \A c \in Callers :
          (op[c].session_id = "" /\ op[c].pc \in { "save", "done" }
              /\ op[c].name \in { "get_history", "update_history" })
             => /\ op[c].reads = 0
                /\ op[c].writes = 0
                /\ op[c].name = "get_history" => op[c].history = << >>
    /\ redis_store[Key("")] = Nil

\* C21 witness: an update_history without session_id is over while another
\* session has a stored history.
C21_Witness ==
    /\ op[1].name = "update_history" /\ op[1].session_id = ""
    /\ op[1].pc = "done"
    /\ Len(StoredHistory("A")) = 2

\* The largest window N of retained messages that a history of MaxHistory
\* messages exceeds.
MaxWindow == MaxHistory - 2

\* C22: there is a number N of messages that no stored history exceeds,
\* however many turns were saved.  The bound on N holding for every larger N
\* too, this is stated for the largest N the histories of the model can
\* exceed.
C22_HistoryWindowBounded ==
    \A session_id \in SessionIds : Len(StoredHistory(session_id)) <= MaxWindow

\* C23: a step changes the value stored for a session only when it is the
\* write of set_initial_context or update_history or the deletion of
\* clear_history called with that session's id (for whatever other callers
\* are in the middle of), or the expiry of that session's key.
C23_NoCrossSessionInterference ==
    [][ \A session_id \in SessionIds :
          redis_store'[Key(session_id)] # redis_store[Key(session_id)]
             => \/ \E c \in Callers :
                     /\ op'[c].session_id = session_id
                     /\ op'[c].pc = "done"
                     /\ op'[c].writes = 1
                     /\ op'[c].name \in { "update_history",
                                          "set_initial_context",
                                          "clear_history" }
                     /\ \A d \in Callers \ { c } : op'[d] = op[d]
                \/ /\ op' = op
                   /\ redis_store'[Key(session_id)] = Nil ]_vars

\* C23 witness: caller 1 has saved a turn of session A while caller 2, in
\* the middle of update_history on session B, holds B's history; B's stored
\* history, set before, is as it was.
C23_Witness ==
    /\ op[1].name = "update_history" /\ op[1].session_id = "A"
    /\ op[1].pc = "done"
    /\ op[2].name = "update_history" /\ op[2].session_id = "B"
    /\ op[2].pc = "save"
    /\ Len(StoredHistory("A")) = 2
    /\ Len(StoredHistory("B")) = 1

\* The stream is consumed to its end by this step: the generator ends while
\* the consumer asks for the next fragment.
ConsumedToEnd ==
    /\ stream_pc # "done" /\ stream_pc' = "done"
    /\ consumer' = "pulling"

\* The stored history of the request's session is extended by the turn: the
\* user message with the query, then the model message with the fragments
\* yielded, joined in order.
TurnSaved ==
    /\ StoredHistory(request.session_id)' =
          StoredHistory(request.session_id)
             \o << ChatMessage("user", request.query),
                   ChatMessage("model", Concat(response_chunks)) >>
    /\ \A k \in Keys \ { Key(request.session_id) } :
          redis_store'[k] = redis_store[k]

\* C24 as stated: whenever the stream is consumed to its end and the request
\* has a session_id, the session's stored history is extended by exactly the
\* two messages of the turn; without session_id the store is not written.
C24_ConsumedStreamIsSaved ==
    [][ ConsumedToEnd =>
           IF request.session_id # "" THEN TurnSaved
           ELSE redis_store' = redis_store ]_vars

\* C24, amended: the turn is saved when the stream is consumed to its end
\* with no exception on the way (no apology fragment was yielded) and the
\* request has a session_id; no other step of the streaming path writes the
\* store: not the end of a stream that yielded the apology, not one of a
\* request without session_id, not a stream the consumer left or cancelled.
C24_CompletedStreamIsSaved ==
    [][ IF ConsumedToEnd /\ stream_pc # "apology_yield"
           /\ request.session_id # ""
        THEN TurnSaved
        ELSE redis_store' = redis_store ]_vars

\* C24 witness: a stream of two fragments was consumed to its end and the
\* session, which had a turn stored, holds the two turns.
C24_Witness ==
    /\ stream_pc = "done" /\ consumer = "pulling"
    /\ Len(response_chunks) = 2
    /\ request.session_id = "A"
    /\ Len(StoredHistory("A")) = 4
    /\ StoredHistory("A")[4] = ChatMessage("model", Concat(response_chunks))

\* The stores a streaming request starts on: no session stored, or one turn
\* stored for session A.
StoresBeforeRequest ==
    { [k \in Keys |-> Nil],
      update_history([k \in Keys |-> Nil], "A",
                     ChatMessage("user", "who won wimbledon"),
                     "Sinner won in four sets.") }

\* The apology is yielded by this step.
ApologyYielded == stream_pc # "apology_yield" /\ stream_pc' = "apology_yield"

\* C40: while the stream is being produced the store is as the request
\* found it, and it still is when the consumer left or was cancelled and when
\* the apology was yielded: neither the query nor a part of the response is
\* stored; the store is written only by the step that ends the stream; and
\* the apology is added after the fragments already yielded, which stay.
C40_NoSaveBeforeStreamEnd ==
    /\ []((stream_pc # "done" \/ consumer # "pulling"
              \/ (response_chunks # << >>
                    /\ response_chunks[Len(response_chunks)] = CriticalErrorMessage))
            => redis_store \in StoresBeforeRequest)
    /\ [][ /\ (redis_store' # redis_store) =>
                 (stream_pc # "done" /\ stream_pc' = "done"
                    /\ response_chunks' = response_chunks)
           /\ ApologyYielded =>
                 (response_chunks' = Append(response_chunks, CriticalErrorMessage))
       ]_vars

\* C40 witness: a fragment was delivered, then the LLM service raised: the
\* apology follows the fragment, the stream has ended, and session A holds
\* the one turn it held before.
C40_Witness ==
    /\ stream_pc = "done" /\ consumer = "pulling"
    /\ Len(response_chunks) = 2
    /\ response_chunks[1] # CriticalErrorMessage
    /\ response_chunks[2] = CriticalErrorMessage
    /\ request.session_id = "A"
    /\ Len(StoredHistory("A")) = 2

\* ------------------------------------------------ the event-list simplifier

\* The longest events array of the payloads.
MaxEvents == 26

\* The events that differ from UpstreamEvent: one with its id only; one
\* whose tournament has no category, one whose category is null; one whose
\* tournament is null; one that is no object; one that is an entry of a
\* preview already.
SpecialEvents ==
    { JObj([id |-> JNum(900)]),
      JObj([id |-> JNum(900),
            tournament |-> JObj([name |-> JStr("Roland Garros")]),
            homeTeam |-> JObj([name |-> JStr("Iga Swiatek")])]),
      JObj([id |-> JNum(900),
            tournament |-> JObj([name |-> JStr("Roland Garros"),
                                 category |-> JNull]),
            status |-> JObj(EmptyDict)]),
      JObj([id |-> JNum(900), tournament |-> JNull]),
      JStr("event"),
      JObj(SimplifyEvent(UpstreamEvent(900))) }

\* n events, the special one at position j (none when j = 0).
EventList(n, j, special) ==
    [i \in 1..n |-> IF i = j THEN special ELSE UpstreamEvent(i)]

\* An error payload of the data-source client.
UpstreamError == [error |-> JStr("API request failed with status 500")]

EventListInputs ==
    UNION { { [events |-> JArr(EventList(n, j, special))] :
                j \in 0..n, special \in SpecialEvents } : n \in 0..MaxEvents }
    \cup { UpstreamError,
           [error |-> JStr("API request failed with status 500"),
            events |-> JArr(<< UpstreamEvent(1) >>)],
           [events |-> JNull],
           [message |-> JStr("no data")] }

\* The simplifier named fn applied to a payload.
ApplyEventListParser(fn, raw_data) ==
    IF fn = "parse_event_list" THEN parse_event_list(raw_data)
    ELSE process_event_list(raw_data)

EventListInit ==
    /\ LoopAtRest
    /\ StreamAtRest
    /\ FinderAtRest
    /\ ClientAtRest
    /\ SessionAtRest
    /\ MatchAtRest
    /\ HeadToHeadAtRest
    /\ parser_pc = "input"
    /\ parser_fn = ""
    /\ parser_input \in EventListInputs
    /\ parser_output = << >>
    /\ parser_second = << >>

\* data_parser.py:14-60, tennis_api_client.py:48-83  the payload is
\* simplified.
ParseEventList ==
    \E fn \in { "parse_event_list", "_process_event_list" } :
        /\ parser_pc = "input"
        /\ parser_fn' = fn
        /\ parser_output' = ApplyEventListParser(fn, parser_input)
        /\ parser_pc' = "parsed"
        /\ UNCHANGED << parser_input, parser_second >>
        /\ UNCHANGED notParserVars

\* The events_preview of the result is simplified again.
ParsePreviewAgain ==
    /\ parser_pc = "parsed"
    /\ "events_preview" \in DOMAIN parser_output
    /\ parser_second' =
          ApplyEventListParser(parser_fn,
                               [events |-> parser_output.events_preview])
    /\ parser_pc' = "reparsed"
    /\ UNCHANGED << parser_fn, parser_input, parser_output >>
    /\ UNCHANGED notParserVars

EventListNext == ParseEventList \/ ParsePreviewAgain

EventListSpec == EventListInit /\ [][EventListNext]_vars

\* The payload was simplified.
Parsed == parser_pc \in { "parsed", "reparsed" }

\* An event of the upstream: an object whose tournament, homeTeam, awayTeam
\* and status are objects where present, and whose tournament's category is
\* an object, null or absent.
IsEventObject(event) ==
    /\ event.t = "obj"
    /\ \A key \in { "tournament", "homeTeam", "awayTeam", "status" } :
          key \in DOMAIN event.d => event.d[key].t = "obj"
    /\ ("tournament" \in DOMAIN event.d
           /\ "category" \in DOMAIN event.d.tournament.d)
          => event.d.tournament.d.category.t \in { "obj", "null" }

\* The payload holds a non-empty array of events.
HasEvents(raw_data) ==
    /\ "error" \notin DOMAIN raw_data
    /\ "events" \in DOMAIN raw_data
    /\ raw_data.events.t = "arr"
    /\ Len(raw_data.events.a) > 0
    /\ \A i \in 1..Len(raw_data.events.a) : IsEventObject(raw_data.events.a[i])

\* min(n, 25)
Min25(n) == IF n < 25 THEN n ELSE 25

\* The keys of an entry of the preview.
PreviewKeys ==
    { "tournament", "category", "home_player", "away_player", "status",
      "event_id", "home_score", "away_score" }

\* C25: for a payload with n > 0 events the result has total_events_found =
\* n, events_returned = min(n, 25) and a preview of that many entries, the
\* i-th made of the i-th event (its id, the names of its tournament and of
\* its two players), each with the eight keys.
C25_PreviewOfFirst25 ==
    (Parsed /\ HasEvents(parser_input)) =>
        LET events == parser_input.events.a
            n == Len(events)
        IN  /\ DOMAIN parser_output =
                  { "total_events_found", "events_returned", "events_preview" }
            /\ parser_output.total_events_found = JNum(n)
            /\ parser_output.events_returned = JNum(Min25(n))
            /\ parser_output.events_preview.t = "arr"
            /\ Len(parser_output.events_preview.a) = Min25(n)
            /\ \A i \in 1..Min25(n) :
                  LET entry == parser_output.events_preview.a[i]
                  IN  /\ entry.t = "obj"
                      /\ DOMAIN entry.d = PreviewKeys
                      /\ entry.d.event_id = events[i].d.id
                      /\ "tournament" \in DOMAIN events[i].d =>
                            entry.d.tournament = events[i].d.tournament.d.name
                      /\ "homeTeam" \in DOMAIN events[i].d =>
                            entry.d.home_player = events[i].d.homeTeam.d.name
                      /\ "awayTeam" \in DOMAIN events[i].d =>
                            entry.d.away_player = events[i].d.awayTeam.d.name

\* C25 witness: 26 events, the third with its id only; 25 were returned.
C25_Witness ==
    /\ Parsed /\ HasEvents(parser_input)
    /\ Len(parser_input.events.a) = 26
    /\ parser_input.events.a[3] = JObj([id |-> JNum(900)])
    /\ parser_output.events_returned = JNum(25)
    /\ parser_output.events_preview.a[3].d.status = JStr("Scheduled")

\* C26: a payload without an error key whose events are empty, null or
\* missing gives the neutral summary, which has no error key and so is no
\* primary tool failure for the loop; a payload with an error key is
\* returned as it is, and is one.
C26_EmptyIsNotAnError ==
    Parsed =>
        /\ ("error" \notin DOMAIN parser_input
               /\ ~Truthy(Get(parser_input, "events", JArr(<< >>))))
              => /\ parser_output =
                       [summary |-> JStr("No events found for this query.")]
                 /\ ~IsPrimaryToolFailure(parser_output, "get_general_schedule")
        /\ "error" \in DOMAIN parser_input
              => /\ parser_output = parser_input
                 /\ IsPrimaryToolFailure(parser_output, "get_general_schedule")

\* C26 witness: an empty events array was simplified.
C26_Witness ==
    /\ Parsed
    /\ parser_input = [events |-> JArr(<< >>)]
    /\ "summary" \in DOMAIN parser_output

\* C27: the second pass over an events_preview returns a preview with the
\* same entries, and no error payload.
C27_SecondPassIdempotent ==
    parser_pc = "reparsed" =>
        /\ "error" \notin DOMAIN parser_second
        /\ "events_preview" \in DOMAIN parser_second
        /\ parser_second.events_preview = parser_output.events_preview

\* ------------------------------------------------ the head-to-head aggregator

\* The longest list of head-to-head events.
MaxH2H == 4

Digits == << "0", "1", "2", "3", "4", "5", "6", "7", "8", "9" >>

\* str(n) of a natural number, as an f-string writes it
RECURSIVE NumStr(_)
NumStr(num) ==
    IF num < 10 THEN Digits[num + 1]
    ELSE NumStr(num \div 10) \o Digits[(num % 10) + 1]

\* What an f-string writes for a value: its text, its digits, None.
Fmt(x) ==
    CASE x.t = "str" -> x.s
      [] x.t = "num" -> NumStr(x.n)
      [] OTHER -> "None"

\* f'period{i}'
PeriodKey(i) == "period" \o NumStr(i)

\* ", ".join(strs)
RECURSIVE JoinComma(_)
JoinComma(strs) ==
    IF Len(strs) = 0 THEN ""
    ELSE IF Len(strs) = 1 THEN strs[1]
    ELSE strs[1] \o ", " \o JoinComma(Tail(strs))

\* The sub-object of a match under key, {} when the key is missing.
Sub(match, key) == Get(match.d, key, JObj(EmptyDict))

\* datetime.fromtimestamp(ts).strftime('%Y-%m-%d') for the one start time of
\* the events below, noon UTC of 14 July 2024.
DateOfTimestamp(ts) == IF ts = 1720958400 THEN "2024-07-14" ELSE "1970-01-01"

\* data_parser.py:160, tennis_api_client.py:310-311
MatchDate(match) ==
    IF Truthy(Get(match.d, "startTimestamp", JNull))
    THEN JStr(DateOfTimestamp(match.d.startTimestamp.n))
    ELSE JStr("N/A")

\* data_parser.py:137-141, tennis_api_client.py:290-295  the two names of the
\* summary: the name of the first event's home team when its id is p1_id,
\* the name of its away team when its id is p2_id, else the names typed.
CanonicalNames(h2h_events, p1_id, p2_id, p1_name, p2_name) ==
    IF Len(h2h_events) = 0
    THEN [p1 |-> JStr(p1_name), p2 |-> JStr(p2_name)]
    ELSE LET home_team == Sub(h2h_events[1], "homeTeam")
             away_team == Sub(h2h_events[1], "awayTeam")
         IN  [p1 |-> IF Get(home_team.d, "id", JNull) = JNum(p1_id)
                     THEN Get(home_team.d, "name", JStr(p1_name))
                     ELSE JStr(p1_name),
              p2 |-> IF Get(away_team.d, "id", JNull) = JNum(p2_id)
                     THEN Get(away_team.d, "name", JStr(p2_name))
                     ELSE JStr(p2_name)]

\* A count that credits every decided match to its home player's side.
RECURSIVE CountWinsHomeOnly(_, _, _)
CountWinsHomeOnly(h2h_events, p1_id, p2_id) ==
    IF Len(h2h_events) = 0 THEN [p1 |-> 0, p2 |-> 0]
    ELSE LET rest == CountWinsHomeOnly(Tail(h2h_events), p1_id, p2_id)
             home_id == Get(Sub(Head(h2h_events), "homeTeam").d, "id", JNull)
         IN  IF home_id = JNum(p1_id) THEN [rest EXCEPT !.p1 = @ + 1]
             ELSE [rest EXCEPT !.p2 = @ + 1]

\* data_parser.py:144-151, tennis_api_client.py:297-303  the wins
RECURSIVE CountWins(_, _, _)
CountWins(h2h_events, p1_id, p2_id) ==
    IF Len(h2h_events) = 0 THEN [p1 |-> 0, p2 |-> 0]
    ELSE LET rest == CountWins(Tail(h2h_events), p1_id, p2_id)
             match == Head(h2h_events)
             winner_code == Get(match.d, "winnerCode", JNull)
             home_id == Get(Sub(match, "homeTeam").d, "id", JNull)
             away_id == Get(Sub(match, "awayTeam").d, "id", JNull)
         IN  IF winner_code = JNum(1) /\ home_id = JNum(p1_id)
                THEN [rest EXCEPT !.p1 = @ + 1]
             ELSE IF winner_code = JNum(1) /\ home_id = JNum(p2_id)
                THEN [rest EXCEPT !.p2 = @ + 1]
             ELSE IF winner_code = JNum(2) /\ away_id = JNum(p1_id)
                THEN [rest EXCEPT !.p1 = @ + 1]
             ELSE IF winner_code = JNum(2) /\ away_id = JNum(p2_id)
                THEN [rest EXCEPT !.p2 = @ + 1]
             ELSE rest

\* The periods whose home score is truthy, in order.
ScoredPeriods(match) ==
    SelectSeq(<< 1, 2, 3, 4, 5 >>,
              LAMBDA i : Truthy(Get(Sub(match, "homeScore").d, PeriodKey(i), JNull)))

\* data_parser.py:156-158, 163  the score of a recent match; away_score[...]
\* is read without a default.
ParsedScore(match) ==
    LET periods == ScoredPeriods(match)
        score_parts ==
            [k \in 1..Len(periods) |->
                Fmt(Sub(match, "homeScore").d[PeriodKey(periods[k])]) \o "-"
                \o Fmt(Sub(match, "awayScore").d[PeriodKey(periods[k])])]
    IN  IF Len(periods) = 0 THEN "Score not available"
        ELSE JoinComma(score_parts)

\* tennis_api_client.py:312-313  the score in the earlier copy: both sides
\* are read with get.
ProcessedScore(match) ==
    LET periods == ScoredPeriods(match)
        score_parts ==
            [k \in 1..Len(periods) |->
                Fmt(Get(Sub(match, "homeScore").d, PeriodKey(periods[k]), JNull))
                \o "-"
                \o Fmt(Get(Sub(match, "awayScore").d, PeriodKey(periods[k]), JNull))]
    IN  IF Len(periods) = 0 THEN "N/A" ELSE JoinComma(score_parts)

\* data_parser.py:162  the winner of a recent match
ParsedWinner(match) ==
    IF Get(match.d, "winnerCode", JNull) = JNum(1)
    THEN Get(Sub(match, "homeTeam").d, "name", JNull)
    ELSE Get(Sub(match, "awayTeam").d, "name", JNull)

\* tennis_api_client.py:307-309  the winner in the earlier copy
ProcessedWinner(match) ==
    IF Get(match.d, "winnerCode", JNull) = JNum(1)
    THEN Get(Sub(match, "homeTeam").d, "name", JNull)
    ELSE IF Get(match.d, "winnerCode", JNull) = JNum(2)
    THEN Get(Sub(match, "awayTeam").d, "name", JNull)
    ELSE JStr("N/A")

\* h2h_events[:3]
RecentEvents(h2h_events) ==
    SubSeq(h2h_events, 1, IF Len(h2h_events) < 3 THEN Len(h2h_events) ELSE 3)

\* data_parser.py:154-164, tennis_api_client.py:305-313  recent_matches
RecentMatches(fn, h2h_events) ==
    [k \in 1..Len(RecentEvents(h2h_events)) |->
        LET match == h2h_events[k]
        IN  [date |-> MatchDate(match),
             tournament |-> Get(Sub(match, "tournament").d, "name", JNull),
             winner |-> IF fn = "parse_h2h_data" THEN ParsedWinner(match)
                        ELSE ProcessedWinner(match),
             score |-> JStr(IF fn = "parse_h2h_data" THEN ParsedScore(match)
                            ELSE ProcessedScore(match))]]

\* The body of either function raises: a get is called on a value that is
\* no dict, or (data_parser.py:158) a period with a home score has no key
\* in away_score.
H2HRaises(fn, h2h_events) ==
    \/ \E k \in 1..Len(h2h_events) :
          \/ ~IsDict(h2h_events[k])
          \/ ~IsDict(Sub(h2h_events[k], "homeTeam"))
          \/ ~IsDict(Sub(h2h_events[k], "awayTeam"))
    \/ \E k \in 1..Len(RecentEvents(h2h_events)) :
          \/ ~IsDict(Sub(h2h_events[k], "homeScore"))
          \/ ~IsDict(Sub(h2h_events[k], "awayScore"))
          \/ ~IsDict(Sub(h2h_events[k], "tournament"))
          \/ /\ fn = "parse_h2h_data"
             /\ \E i \in 1..5 :
                   /\ Truthy(Get(Sub(h2h_events[k], "homeScore").d, PeriodKey(i), JNull))
                   /\ PeriodKey(i) \notin DOMAIN Sub(h2h_events[k], "awayScore").d

\* data_parser.py:167-169, tennis_api_client.py:315-317  the summary
\* sentence; the two copies end the "leads" sentences differently.
H2HSummary(fn, p1_canonical, p2_canonical, p1_wins, p2_wins) ==
    LET ending == IF fn = "parse_h2h_data" THEN " in their head-to-head."
                  ELSE " in their head-to-head matches."
    IN  IF p1_wins > p2_wins
        THEN Fmt(p1_canonical) \o " leads " \o Fmt(p2_canonical) \o " "
             \o NumStr(p1_wins) \o "-" \o NumStr(p2_wins) \o ending
        ELSE IF p2_wins > p1_wins
        THEN Fmt(p2_canonical) \o " leads " \o Fmt(p1_canonical) \o " "
             \o NumStr(p2_wins) \o "-" \o NumStr(p1_wins) \o ending
        ELSE "The head-to-head record between " \o Fmt(p1_canonical)
             \o " and " \o Fmt(p2_canonical) \o " is tied "
             \o NumStr(p1_wins) \o "-" \o NumStr(p1_wins) \o "."

\* f"{p1_canonical}_wins"
WinsKey(canonical) == Fmt(canonical) \o "_wins"

\* data_parser.py:117-179 parse_h2h_data and tennis_api_client.py:284-323
\* _process_h2h_data_and_return.  On an exception the first returns its error
\* payload; the second returns what perform_web_search gives for the query
\* named here.
H2HRecord(fn, h2h_data, p1_id, p2_id, p1_name, p2_name) ==
    LET h2h_events == Get(h2h_data, "events", JArr(<< >>)).a
        names == CanonicalNames(h2h_events, p1_id, p2_id, p1_name, p2_name)
        wins == CountWins(h2h_events, p1_id, p2_id)
    IN  IF H2HRaises(fn, h2h_events)
        THEN IF fn = "parse_h2h_data"
             THEN [error |-> JStr("Failed to parse H2H data.")]
             ELSE [web_search |->
                      JStr("Head to head record between " \o p1_name
                           \o " and " \o p2_name \o " tennis")]
        ELSE [summary |->
                  JStr(H2HSummary(fn, names.p1, names.p2, wins.p1, wins.p2)),
              overall_record |->
                  [key \in { WinsKey(names.p1), WinsKey(names.p2) } |->
                      IF key = WinsKey(names.p2) THEN JNum(wins.p2)
                      ELSE JNum(wins.p1)],
              recent_matches |-> JArr(RecentMatches(fn, h2h_events))]

\* The upstream's team records of the two players.
TeamA == JObj([id |-> JNum(1), name |-> JStr("Sinner J.")])
TeamB == JObj([id |-> JNum(2), name |-> JStr("Alcaraz C.")])

\* A head-to-head event: its two sides, its winner code (0: none given) and
\* the set scores of each side.
H2HEvent(home, away, winner_code, home_score, away_score) ==
    LET match == [homeTeam |-> home, awayTeam |-> away,
                  tournament |-> JObj([name |-> JStr("Wimbledon")]),
                  startTimestamp |-> JNum(1720958400),
                  homeScore |-> home_score, awayScore |-> away_score]
    IN  JObj(IF winner_code = 0 THEN match
             ELSE [key \in DOMAIN match \cup { "winnerCode" } |->
                      IF key = "winnerCode" THEN JNum(winner_code)
                      ELSE match[key]])

\* The events of the lists: either player on either side winning, a match
\* without winner code, one with a winner code that is neither 1 nor 2, one
\* whose away side has no score for a set the home side has one for, and one
\* whose home team is null.
H2HEvents ==
    { H2HEvent(TeamA, TeamB, 1, JObj([period1 |-> JNum(6)]), JObj([period1 |-> JNum(4)])),
      H2HEvent(TeamA, TeamB, 2, JObj([period1 |-> JNum(3)]), JObj([period1 |-> JNum(6)])),
      H2HEvent(TeamB, TeamA, 1, JObj([period1 |-> JNum(7)]), JObj([period1 |-> JNum(5)])),
      H2HEvent(TeamB, TeamA, 2, JObj([period1 |-> JNum(0)]), JObj([period1 |-> JNum(6)])),
      H2HEvent(TeamA, TeamB, 0, JObj(EmptyDict), JObj(EmptyDict)),
      H2HEvent(TeamB, TeamA, 3, JObj([period1 |-> JNum(6)]), JObj(EmptyDict)),
      H2HEvent(JNull, TeamB, 1, JObj(EmptyDict), JObj(EmptyDict)) }

H2HInputs ==
    [h2h_data : { [events |-> JArr(evs)] :
                     evs \in UNION { [1..n -> H2HEvents] : n \in 0..MaxH2H } },
     p1_id : { 1 }, p2_id : { 2 },
     p1_name : { "sinner" }, p2_name : { "alcaraz" }]

H2HInit ==
    /\ LoopAtRest
    /\ StreamAtRest
    /\ FinderAtRest
    /\ ClientAtRest
    /\ SessionAtRest
    /\ MatchAtRest
    /\ HeadToHeadAtRest
    /\ parser_pc = "input"
    /\ parser_fn = ""
    /\ parser_input \in H2HInputs
    /\ parser_output = << >>
    /\ parser_second = << >>

\* data_parser.py:117-179, tennis_api_client.py:284-323  the head-to-head
\* payload is aggregated.
ParseH2H ==
    \E fn \in { "parse_h2h_data", "_process_h2h_data_and_return" } :
        /\ parser_pc = "input"
        /\ parser_fn' = fn
        /\ parser_output' =
              H2HRecord(fn, parser_input.h2h_data, parser_input.p1_id,
                        parser_input.p2_id, parser_input.p1_name,
                        parser_input.p2_name)
        /\ parser_pc' = "parsed"
        /\ UNCHANGED << parser_input, parser_second >>
        /\ UNCHANGED notParserVars

H2HNext == ParseH2H

H2HSpec == H2HInit /\ [][H2HNext]_vars

\* The events of the payload aggregated.
InputEvents == parser_input.h2h_data.events.a

\* The id of the player an event's winner code names, null when the code is
\* missing or neither 1 nor 2.
WinnerId(match) ==
    IF Get(match.d, "winnerCode", JNull) = JNum(1)
    THEN Get(Sub(match, "homeTeam").d, "id", JNull)
    ELSE IF Get(match.d, "winnerCode", JNull) = JNum(2)
    THEN Get(Sub(match, "awayTeam").d, "id", JNull)
    ELSE JNull

\* The number of events a player won.
WinsOf(h2h_events, id) ==
    Cardinality({ k \in 1..Len(h2h_events) : WinnerId(h2h_events[k]) = JNum(id) })

\* The record was produced: no exception was raised on the way.
H2HParsed == parser_pc = "parsed" /\ "summary" \in DOMAIN parser_output

\* C28: the record's win counts are the numbers of events each player won
\* and add up to at most the number of events; the summary names first the
\* player with the strictly greater count, with the score leader-first, and
\* states a tie when the counts are equal.
C28_LeaderHasMoreWins ==
    H2HParsed =>
        LET a == WinsOf(InputEvents, parser_input.p1_id)
            b == WinsOf(InputEvents, parser_input.p2_id)
            names == CanonicalNames(InputEvents, parser_input.p1_id,
                                    parser_input.p2_id, parser_input.p1_name,
                                    parser_input.p2_name)
            ending == IF parser_fn = "parse_h2h_data"
                      THEN " in their head-to-head."
                      ELSE " in their head-to-head matches."
        IN  /\ parser_output.overall_record[WinsKey(names.p1)] = JNum(a)
            /\ parser_output.overall_record[WinsKey(names.p2)] = JNum(b)
            /\ a + b <= Len(InputEvents)
            /\ a > b => parser_output.summary =
                  JStr(Fmt(names.p1) \o " leads " \o Fmt(names.p2) \o " "
                       \o NumStr(a) \o "-" \o NumStr(b) \o ending)
            /\ b > a => parser_output.summary =
                  JStr(Fmt(names.p2) \o " leads " \o Fmt(names.p1) \o " "
                       \o NumStr(b) \o "-" \o NumStr(a) \o ending)
            /\ a = b => parser_output.summary =
                  JStr("The head-to-head record between " \o Fmt(names.p1)
                       \o " and " \o Fmt(names.p2) \o " is tied "
                       \o NumStr(a) \o "-" \o NumStr(b) \o ".")

\* C28 witness: four events, three won by player 1 (one of them from the
\* away side), one by player 2.
C28_Witness ==
    /\ H2HParsed /\ parser_fn = "parse_h2h_data"
    /\ Len(InputEvents) = 4
    /\ WinnerId(InputEvents[2]) = JNum(2)
    /\ Get(InputEvents[3].d.homeTeam.d, "id", JNull) = JNum(2)
    /\ parser_output.summary =
          JStr("Sinner J. leads Alcaraz C. 3-1 in their head-to-head.")

\* The name the first event gives the player with this id, on either side;
\* the name typed when neither side has the id.
NameInFirstEvent(id, typed_name) ==
    LET home_team == Sub(InputEvents[1], "homeTeam")
        away_team == Sub(InputEvents[1], "awayTeam")
    IN  IF Get(home_team.d, "id", JNull) = JNum(id)
        THEN Get(home_team.d, "name", JStr(typed_name))
        ELSE IF Get(away_team.d, "id", JNull) = JNum(id)
        THEN Get(away_team.d, "name", JStr(typed_name))
        ELSE JStr(typed_name)

\* C29: the names of the record are the names the first event's team records
\* give the two players, whichever side each is on.
C29_CanonicalNameFromEitherSide ==
    (H2HParsed /\ Len(InputEvents) > 0) =>
        DOMAIN parser_output.overall_record =
            { WinsKey(NameInFirstEvent(parser_input.p1_id, parser_input.p1_name)),
              WinsKey(NameInFirstEvent(parser_input.p2_id, parser_input.p2_name)) }

\* C37: in recent_matches an event whose winner code is missing or neither
\* 1 nor 2 has the winner 'N/A', and it adds to the wins of neither player:
\* the two counts together are the number of events with winner code 1 or 2.
C37_NoWinnerCodeIsNA ==
    H2HParsed =>
        /\ \A k \in 1..Len(parser_output.recent_matches.a) :
              Get(InputEvents[k].d, "winnerCode", JNull) \notin { JNum(1), JNum(2) }
                 => parser_output.recent_matches.a[k].winner = JStr("N/A")
        /\ \A key \in DOMAIN parser_output.overall_record :
              parser_output.overall_record[key].n
                 <= Cardinality({ k \in 1..Len(InputEvents) :
                        Get(InputEvents[k].d, "winnerCode", JNull)
                            \in { JNum(1), JNum(2) } })

\* ---------------------------------------------------------- the match finder

Str_Nadal == << "N", "a", "d", "a", "l" >>
Str_Ferrer == << "F", "e", "r", "r", "e", "r" >>
Str_Murray == << "M", "u", "r", "r", "a", "y" >>

\* No second player (None).
NoPlayer == << >>

\* The two copies of the tool: services/tennis_tools.py over
\* tennis_logic, and services/tennis_api_client.py, the one the registry
\* imports.
Generations == { "tennis_tools", "tennis_api_client" }

\* An upstream event of a schedule, names as sequences of characters.
MatchEvent(id, home, away) ==
    JObj([id |-> JNum(id),
          tournament |-> JObj([name |-> JStr("Wimbledon")]),
          homeTeam |-> JObj([name |-> JStr(home)]),
          awayTeam |-> JObj([name |-> JStr(away)]),
          status |-> JObj([description |-> JStr("1st set")]),
          homeScore |-> JObj([period1 |-> JNum(3)]),
          awayScore |-> JObj([period1 |-> JNum(2)])])

\* A day with more events than are processed: matches of others, and after
\* them the match of the two players.
LongSchedule ==
    [k \in 1..MAX_EVENTS_TO_PROCESS |-> MatchEvent(100 + k, Str_Murray, Str_Nadal)]
    \o << MatchEvent(15, Str_Roger_Federer, Str_Nadal) >>

\* What a request for a list of events is answered with: a failure, or a
\* body with no event, with the match of the two players, with matches of
\* others, with the match after another one, with the match after more
\* events than are processed.
EventListAnswers ==
    { [kind |-> "fails", raw |-> << >>] }
    \cup { [kind |-> "json", raw |-> [events |-> JArr(evs)]] :
              evs \in { << >>,
                        << MatchEvent(11, Str_Roger_Federer, Str_Nadal) >>,
                        << MatchEvent(12, Str_Ferrer, Str_Nadal) >>,
                        << MatchEvent(12, Str_Ferrer, Str_Nadal),
                           MatchEvent(13, Str_Nadal, Str_Roger_Federer) >>,
                        << MatchEvent(14, Str_Ferrer, Str_R_Federer) >>,
                        LongSchedule } }

\* What the statistics request is answered with: a failure, no statistics,
\* the statistics of the whole match and of a set.
StatisticsAnswers ==
    { [kind |-> "fails", raw |-> << >>],
      [kind |-> "json", raw |-> [statistics |-> JArr(<< >>)]],
      [kind |-> "json", raw |->
          [statistics |-> JArr(<<
              JObj([period |-> JStr("1ST"),
                    groups |-> JArr(<< JObj([statisticsItems |-> JArr(<<
                        JObj([key |-> JStr("aces"), home |-> JNum(1),
                              away |-> JNum(0)]) >>)]) >>)]),
              JObj([period |-> JStr("ALL"),
                    groups |-> JArr(<< JObj([statisticsItems |-> JArr(<<
                        JObj([key |-> JStr("aces"), home |-> JNum(5),
                              away |-> JNum(2)]),
                        JObj([key |-> JStr("firstServe"), home |-> JNum(60),
                              away |-> JNum(55)]) >>)]) >>)]) >>)]] }

\* tennis_api_client.py:22-45  the earlier client answers a failed request
\* with an error payload; tennis_logic/api_client.py:49-85 raises.
FailedRequest(generation) ==
    IF generation = "tennis_tools" THEN RaisedException("TypeError")
    ELSE ReturnedValue(UpstreamError)

\* tennis_tools.py:110-123, tennis_api_client.py:326-338  get_general_schedule
ScheduleData(generation, day, answer) ==
    IF ~DateParses(day) THEN ReturnedValue(InvalidDateError)
    ELSE IF answer.kind = "fails" THEN FailedRequest(generation)
    ELSE ReturnedValue(IF generation = "tennis_tools"
                       THEN parse_event_list(answer.raw)
                       ELSE process_event_list(answer.raw))

\* tennis_tools.py:66-67, tennis_api_client.py:341-343  the live events
LiveData(generation, answer) ==
    IF answer.kind = "fails" THEN FailedRequest(generation)
    ELSE ReturnedValue(IF generation = "tennis_tools"
                       THEN parse_event_list(answer.raw)
                       ELSE process_event_list(answer.raw))

\* tennis_tools.py:27-31  the players are in the event
InMatch(event, p1_name, p2_name) ==
    LET home_player == lower(Get(event.d, "home_player", JStr(<< >>)).s)
        away_player == lower(Get(event.d, "away_player", JStr(<< >>)).s)
    IN  /\ \/ IsSubstring(lower(p1_name), home_player)
           \/ IsSubstring(lower(p1_name), away_player)
        /\ \/ p2_name = NoPlayer
           \/ IsSubstring(lower(p2_name), home_player)
           \/ IsSubstring(lower(p2_name), away_player)

\* tennis_tools.py:22-33  the first event with the players, null when none
RECURSIVE TargetEvent(_, _, _)
TargetEvent(events, p1_name, p2_name) ==
    IF Len(events) = 0 THEN JNull
    ELSE IF InMatch(Head(events), p1_name, p2_name) THEN Head(events)
    ELSE TargetEvent(Tail(events), p1_name, p2_name)

\* tennis_tools.py:35-39, tennis_api_client.py:154-162  what the search in a
\* list leads to: nothing found, a payload returned at once, or the request
\* for the statistics of the event found.
FindStep(generation, events, p1_name, p2_name) ==
    LET target_event == TargetEvent(events, p1_name, p2_name)
    IN  IF target_event = JNull THEN [kind |-> "none"]
        ELSE IF Truthy(Get(target_event.d, "event_id", JNull))
        THEN [kind |-> "statistics", target |-> target_event]
        ELSE IF generation = "tennis_tools" THEN [kind |-> "none"]
        ELSE [kind |-> "return",
              value |-> [error |-> JStr("Found the match, but could not retrieve its details due to missing data.")]]

\* dict.update
Update(dict, other) ==
    [key \in DOMAIN dict \cup DOMAIN other |->
        IF key \in DOMAIN other THEN other[key] ELSE dict[key]]

\* data_parser.py:95  the first entry of statistics whose period is "ALL"
RECURSIVE AllStatsPeriod(_)
AllStatsPeriod(statistics) ==
    IF Len(statistics) = 0 THEN JNull
    ELSE IF Get(Head(statistics).d, "period", JNull) = JStr("ALL")
         THEN Head(statistics)
    ELSE AllStatsPeriod(Tail(statistics))

\* data_parser.py:97-98  the items of all groups, in order
RECURSIVE StatisticsItems(_)
StatisticsItems(groups) ==
    IF Len(groups) = 0 THEN << >>
    ELSE Get(Head(groups).d, "statisticsItems", JArr(<< >>)).a
         \o StatisticsItems(Tail(groups))

\* data_parser.py:100
StatKeys == { "aces", "doubleFaults", "breakPointsSaved", "breakPointsConverted" }

\* data_parser.py:94-101  the statistics kept
SimplifiedStatistics(statistics) ==
    LET all_stats_period == AllStatsPeriod(statistics)
        items == IF Truthy(all_stats_period)
                 THEN StatisticsItems(Get(all_stats_period.d, "groups", JArr(<< >>)).a)
                 ELSE << >>
        kept == SelectSeq(items,
                    LAMBDA item : /\ Get(item.d, "key", JNull).t = "str"
                                  /\ Get(item.d, "key", JNull).s \in StatKeys)
    IN  [key \in { kept[k].d.key.s : k \in 1..Len(kept) } |->
            LET last == CHOOSE k \in 1..Len(kept) :
                            /\ kept[k].d.key.s = key
                            /\ \A j \in (k + 1)..Len(kept) : kept[j].d.key.s # key
            IN  JObj([home |-> Get(kept[last].d, "home", JNull),
                      away |-> Get(kept[last].d, "away", JNull)])]

\* data_parser.py:87-92  final_score
FinalScore(home_score, away_score) ==
    LET periods == SelectSeq(<< 1, 2, 3, 4, 5 >>,
                       LAMBDA i : /\ PeriodKey(i) \in DOMAIN home_score.d
                                  /\ PeriodKey(i) \in DOMAIN away_score.d)
    IN  IF Len(periods) = 0 THEN "Score not available"
        ELSE JoinComma([k \in 1..Len(periods) |->
                 Fmt(home_score.d[PeriodKey(periods[k])]) \o "-"
                 \o Fmt(away_score.d[PeriodKey(periods[k])])])

\* data_parser.py:63-114, tennis_api_client.py:86-134
\* simplify_full_match_details, for an event whose scores are objects and
\* whose statistics are a list of objects
simplify_full_match_details(full_event_data) ==
    LET home_score == Get(full_event_data, "home_score", JObj(EmptyDict))
        away_score == Get(full_event_data, "away_score", JObj(EmptyDict))
        winner_code ==
            Get(full_event_data, "winnerCode",
                Get(home_score.d, "winnerCode",
                    Get(away_score.d, "winnerCode", JNull)))
        stats == SimplifiedStatistics(
                     Get(full_event_data, "statistics", JArr(<< >>)).a)
    IN  [tournament |-> Get(full_event_data, "tournament", JNull),
         home_player |-> Get(full_event_data, "home_player", JNull),
         away_player |-> Get(full_event_data, "away_player", JNull),
         status |-> Get(full_event_data, "status", JNull),
         winner |-> IF winner_code = JNum(1)
                    THEN Get(full_event_data, "home_player", JNull)
                    ELSE IF winner_code = JNum(2)
                    THEN Get(full_event_data, "away_player", JNull)
                    ELSE JStr("N/A"),
         final_score |-> JStr(FinalScore(home_score, away_score)),
         simplified_statistics |->
             IF DOMAIN stats # {} THEN JObj(stats)
             ELSE JStr("No detailed statistics available.")]

\* tennis_tools.py:54  search_desc
SearchDesc(p1_name, p2_name) ==
    "'" \o Concat(p1_name) \o "'"
    \o (IF p2_name # NoPlayer THEN " vs '" \o Concat(p2_name) \o "'" ELSE "")

\* What get_h2h_events answers: a failure, a player not found, a record with
\* recent matches.
H2HAnswers(generation, p1_name, p2_name) ==
    { [kind |-> "fails", value |-> << >>],
      [kind |-> "json", value |->
          [summary |-> JStr("I had trouble finding a player named '"
                            \o Concat(p1_name) \o "'.")]],
      [kind |-> "json", value |->
          H2HRecord(IF generation = "tennis_tools" THEN "parse_h2h_data"
                    ELSE "_process_h2h_data_and_return",
                    [events |-> JArr(<< H2HEvent(TeamA, TeamB, 1,
                                           JObj([period1 |-> JNum(6)]),
                                           JObj([period1 |-> JNum(4)])) >>)],
                    1, 2, Concat(p1_name), Concat(p2_name))] }

\* The tool returns a payload.
MatchReturns(payload) == [pc |-> "done", result |-> ReturnedValue(payload)]

\* The tool goes on to the statistics of the event found.
ToStatistics(events, target_event) ==
    [pc |-> "statistics", events |-> events, target |-> target_event]

\* The tool goes on to another lookup or ends with an exception.
ToStep(step, events) == [pc |-> step, events |-> events, target |-> JNull]

\* tennis_tools.py:58-63, tennis_api_client.py:181-193  after the day's
\* schedule has been obtained
AfterSchedule(generation, args, data) ==
    IF data.kind = "raised" THEN [pc |-> "done", result |-> data]
    ELSE IF "error" \in DOMAIN data.value THEN MatchReturns(data.value)
    ELSE LET events == Get(data.value, "events_preview", JArr(<< >>)).a
             step == FindStep(generation, events, args.player1_name,
                              args.player2_name)
         IN  IF generation = "tennis_api_client" /\ Len(events) = 0
             THEN MatchReturns([summary |->
                     JStr("I couldn't find any matches at all scheduled for "
                          \o args.date \o ".")])
             ELSE IF step.kind = "statistics"
             THEN ToStatistics(events, step.target)
             ELSE IF step.kind = "return" THEN MatchReturns(step.value)
             ELSE MatchReturns([summary |->
                     JStr("I looked for a match with "
                          \o SearchDesc(args.player1_name, args.player2_name)
                          \o " on " \o args.date \o " but couldn't find one.")])

\* A variant that asks for the head-to-head record whatever the live events.
AfterLiveAlwaysH2H(generation, args, data) ==
    ToStep("h2h", IF data.kind = "raised" THEN << >>
                  ELSE Get(data.value, "events_preview", JArr(<< >>)).a)

\* tennis_tools.py:66-80, tennis_api_client.py:199-212  after the live events
\* have been obtained
AfterLive(generation, args, data) ==
    IF data.kind = "raised" THEN [pc |-> "done", result |-> data]
    ELSE LET events == Get(data.value, "events_preview", JArr(<< >>)).a
             step == FindStep(generation, events, args.player1_name,
                              args.player2_name)
         IN  IF Len(events) > 0 /\ step.kind = "statistics"
             THEN ToStatistics(events, step.target)
             ELSE IF Len(events) > 0 /\ step.kind = "return"
             THEN MatchReturns(step.value)
             ELSE IF args.player2_name = NoPlayer
             THEN MatchReturns([summary |->
                     JStr("To find a past match without a date, please provide two player names.")])
             ELSE ToStep("h2h", events)

\* tennis_tools.py:39-47, tennis_api_client.py:162-169  after the statistics
\* have been obtained
AfterStatistics(generation, target_event, answer) ==
    IF answer.kind = "fails" /\ generation = "tennis_tools"
    THEN [pc |-> "done", result |-> RaisedException("TypeError")]
    ELSE MatchReturns(
            [summary |-> JStr("Successfully found and processed match details."),
             match_details |->
                 JObj(simplify_full_match_details(
                         Update(target_event.d,
                                IF answer.kind = "fails" THEN UpstreamError
                                ELSE answer.raw)))])

\* tennis_tools.py:80-86, tennis_api_client.py:212-220  after get_h2h_events
AfterH2H(generation, args, answer) ==
    IF answer.kind = "fails"
    THEN IF generation = "tennis_tools"
         THEN [pc |-> "done", result |-> RaisedException("TypeError")]
         ELSE MatchReturns([summary |->
                 JStr("I couldn't find any head-to-head match history between "
                      \o Concat(args.player1_name) \o " and "
                      \o Concat(args.player2_name) \o ".")])
    ELSE IF Truthy(Get(answer.value, "recent_matches", JNull))
    THEN MatchReturns(
            [summary |->
                 JStr("I couldn't find a live match, but I found several recent matches for "
                      \o Concat(args.player1_name) \o " and "
                      \o Concat(args.player2_name)
                      \o ". Please ask the user to clarify."),
             clarification_options |-> answer.value.recent_matches])
    ELSE MatchReturns(answer.value)

\* No list of events has been searched.
NoMatchEvents ==
    [searched |-> FALSE, upstream |-> << >>, events |-> << >>, target |-> JNull]

MatchInit ==
    /\ LoopAtRest
    /\ StreamAtRest
    /\ FinderAtRest
    /\ ClientAtRest
    /\ SessionAtRest
    /\ ParserAtRest
    /\ HeadToHeadAtRest
    /\ match_pc = "start"
    /\ match_args \in [generation : Generations,
                       player1_name : { Str_Federer, Str_Ferrer },
                       player2_name : { NoPlayer, Str_Nadal },
                       date : { "", "today", "next friday" }]
    /\ lookups = << >>
    /\ match_events = NoMatchEvents
    /\ match_result = NoOutcome

\* The tool takes the step computed: it returns or raises, or it makes the
\* next lookup.  The events the upstream listed are kept as history.
TakeStep(next, upstream) ==
    IF next.pc = "done"
    THEN /\ match_pc' = "done"
         /\ match_result' = next.result
         /\ UNCHANGED lookups
         /\ match_events' = [match_events EXCEPT !.searched = TRUE,
                                                 !.upstream = upstream]
    ELSE /\ match_pc' = next.pc
         /\ lookups' = Append(lookups, next.pc)
         /\ match_events' = [searched |-> TRUE, upstream |-> upstream,
                             events |-> next.events, target |-> next.target]
         /\ UNCHANGED match_result

\* The events of an answer, none when the request failed.
UpstreamEvents(answer) ==
    IF answer.kind = "json" THEN answer.raw.events.a ELSE << >>

\* tennis_tools.py:56-58  a date is given: the day's schedule is asked for.
MatchStartWithDate ==
    /\ match_pc = "start"
    /\ match_args.date # ""
    /\ match_pc' = "schedule"
    /\ lookups' = Append(lookups, "schedule")
    /\ UNCHANGED << match_args, match_events, match_result >>
    /\ UNCHANGED notMatchVars

\* tennis_tools.py:65-66  no date: the live events are asked for.
MatchStartLive ==
    /\ match_pc = "start"
    /\ match_args.date = ""
    /\ match_pc' = "live"
    /\ lookups' = Append(lookups, "live")
    /\ UNCHANGED << match_args, match_events, match_result >>
    /\ UNCHANGED notMatchVars

\* tennis_tools.py:58-63  get_general_schedule has returned or raised.
MatchScheduleReturns ==
    \E answer \in EventListAnswers :
        /\ match_pc = "schedule"
        /\ TakeStep(AfterSchedule(match_args.generation, match_args,
                        ScheduleData(match_args.generation, match_args.date,
                                     answer)),
                    IF DateParses(match_args.date) THEN UpstreamEvents(answer)
                    ELSE << >>)
        /\ UNCHANGED match_args
        /\ UNCHANGED notMatchVars

\* tennis_tools.py:66-80  the request for the live events is over.
MatchLiveReturns ==
    \E answer \in EventListAnswers :
        /\ match_pc = "live"
        /\ TakeStep(AfterLive(match_args.generation, match_args,
                              LiveData(match_args.generation, answer)),
                    UpstreamEvents(answer))
        /\ UNCHANGED match_args
        /\ UNCHANGED notMatchVars

\* tennis_tools.py:39-47, 63, 72-74  the request for the statistics is over:
\* the details are returned.
MatchStatisticsReturns ==
    \E answer \in StatisticsAnswers :
        /\ match_pc = "statistics"
        /\ TakeStep(AfterStatistics(match_args.generation,
                                    match_events.target, answer),
                    match_events.upstream)
        /\ UNCHANGED match_args
        /\ UNCHANGED notMatchVars

\* tennis_tools.py:80-86  get_h2h_events has returned or raised.
MatchH2HReturns ==
    \E answer \in H2HAnswers(match_args.generation, match_args.player1_name,
                             match_args.player2_name) :
        /\ match_pc = "h2h"
        /\ TakeStep(AfterH2H(match_args.generation, match_args, answer),
                    match_events.upstream)
        /\ UNCHANGED match_args
        /\ UNCHANGED notMatchVars

MatchNext ==
    \/ MatchStartWithDate
    \/ MatchStartLive
    \/ MatchScheduleReturns
    \/ MatchLiveReturns
    \/ MatchStatisticsReturns
    \/ MatchH2HReturns

MatchSpec == MatchInit /\ [][MatchNext]_vars

\* A live event with the players named is among the events searched.
LiveMatchFound ==
    \E k \in 1..Len(match_events.events) :
        InMatch(match_events.events[k], match_args.player1_name,
                match_args.player2_name)

\* The tool has returned the details of a match.
DetailsReturned ==
    /\ match_result.kind = "returned"
    /\ "match_details" \in DOMAIN match_result.value

\* C30: without a date the first lookup is that of the live events; the
\* head-to-head lookup is made only after it and only when no live event has
\* the players; when the details of a live match are returned the lookups
\* were the live events and the statistics of that match, never the
\* head-to-head; the schedule of a day is never asked for.  With a date the
\* only list asked for is that day's schedule (then the statistics of the
\* match found in it).
C30_LiveFirstThenH2H ==
    /\ match_args.date = "" =>
          /\ lookups \in { << >>, << "live" >>, << "live", "statistics" >>,
                           << "live", "h2h" >> }
          /\ (Len(lookups) = 2 /\ lookups[2] = "h2h") => ~LiveMatchFound
          /\ (Len(lookups) = 2 /\ lookups[2] = "statistics") => LiveMatchFound
          /\ DetailsReturned => lookups = << "live", "statistics" >>
    /\ match_args.date # "" =>
          lookups \in { << >>, << "schedule" >>, << "schedule", "statistics" >> }

\* C30 witness: without a date, no live match of the two players was found
\* among two live events, and the head-to-head lookup gave the options.
C30_Witness ==
    /\ match_pc = "done" /\ match_args.date = ""
    /\ lookups = << "live", "h2h" >>
    /\ Len(match_events.events) = 1
    /\ match_result.kind = "returned"
    /\ "clarification_options" \in DOMAIN match_result.value


\* The named players are the participants of an event the upstream listed:
\* each name is part of the name of one of its two sides.
Participants(event, p1_name, p2_name) ==
    LET home == lower(event.d.homeTeam.d.name.s)
        away == lower(event.d.awayTeam.d.name.s)
    IN  /\ IsSubstring(lower(p1_name), home) \/ IsSubstring(lower(p1_name), away)
        /\ p2_name = NoPlayer
           \/ IsSubstring(lower(p2_name), home)
           \/ IsSubstring(lower(p2_name), away)

\* C39: called with a date, once the day's schedule has been obtained the
\* tool has found the match (it goes on to that match's statistics)
\* whenever some event the upstream listed for the day has the named
\* players as participants, at whatever position of the list.
C39_DatedMatchFoundAnywhere ==
    (/\ match_args.date # "" /\ match_events.searched
     /\ \E k \in 1..Len(match_events.upstream) :
           Participants(match_events.upstream[k], match_args.player1_name,
                        match_args.player2_name))
       => /\ Len(lookups) = 2
          /\ lookups[2] = "statistics"
          /\ match_events.target # JNull
\* ------------------------------------------- interleaved history updates

\* A history made of whole writes: nothing, or a context set, or such a
\* history followed by a user message and then a model message.
RECURSIVE WholeWrites(_)
WholeWrites(history) ==
    \/ history = << >>
    \/ history \in { InitialHistory(context) : context \in Contexts }
    \/ /\ Len(history) >= 2
       /\ history[Len(history) - 1] \in
              { ChatMessage("user", q) : q \in UserQueries }
       /\ history[Len(history)] \in
              { ChatMessage("model", content) : content \in ModelResponses }
       /\ WholeWrites(SubSeq(history, 1, Len(history) - 2))

\* Caller c completes an update_history by its write.
UpdateSavedBy(c) ==
    /\ op[c].name = "update_history" /\ op[c].pc = "save"
    /\ op'[c].pc = "done" /\ op'[c].writes = 1

\* C35: with update_history calls interleaved, the history stored for a
\* session is at all times made of whole writes, a user message always
\* followed by its model message; and the write that ends an update_history
\* stores, as one value, the history that caller read followed by its two
\* messages, whatever another caller has stored since the read.
C35_LastWriterWinsWholeValue ==
    /\ [](\A session_id \in SessionIds : WholeWrites(StoredHistory(session_id)))
    /\ [][\A c \in Callers :
            UpdateSavedBy(c) =>
                /\ StoredHistory(op[c].session_id)' = op[c].history
                /\ \A session_id \in SessionIds \ { op[c].session_id } :
                      StoredHistory(session_id)' = StoredHistory(session_id)]_vars

\* C35 witness: both callers have updated session A from the same empty
\* history; the pair of the first to write was overwritten by the second.
C35_Witness ==
    /\ \A c \in Callers :
          /\ op[c].name = "update_history" /\ op[c].session_id = "A"
          /\ op[c].pc = "done" /\ op[c].writes = 1
          /\ Len(op[c].history) = 2
    /\ StoredHistory("A") = op[1].history

\* ------------------------------------------------- the history conversion

\* The largest history converted.
MaxConverted == 2

\* Roles as their sequences of characters.
Str_user == << "u", "s", "e", "r" >>
Str_model == << "m", "o", "d", "e", "l" >>
Str_assistant == << "a", "s", "s", "i", "s", "t", "a", "n", "t" >>

\* The roles a ChatMessage arrives with (chat_schemas.py:11: any string):
\* the two of the schema's examples, the assistant role, spellings of both
\* in other cases, other roles, a role that only starts like the model's,
\* and the empty one.
Roles ==
    { Str_user, Str_model, Str_assistant,
      << "M", "o", "d", "e", "l" >>, << "M", "O", "D", "E", "L" >>,
      << "A", "s", "s", "i", "s", "t", "a", "n", "t" >>, << "A", "S", "S", "I", "S", "T", "A", "N", "T" >>,
      << "U", "S", "E", "R" >>, << "s", "y", "s", "t", "e", "m" >>, << "t", "o", "o", "l" >>,
      << "m", "o", "d", "e", "l", "s" >>, << >> }

\* The spellings of 'model' and 'assistant' among them.
ModelRoleSpellings ==
    { Str_model, Str_assistant,
      << "M", "o", "d", "e", "l" >>, << "M", "O", "D", "E", "L" >>,
      << "A", "s", "s", "i", "s", "t", "a", "n", "t" >>, << "A", "S", "S", "I", "S", "T", "A", "N", "T" >> }

ConvContents == { "who won wimbledon", "Sinner won in four sets." }

\* A variant that compares the role as it is spelt.
GeminiRoleCaseSensitive(role) ==
    IF role \in { Str_assistant, Str_model } THEN "model" ELSE "user"

\* llm_processor.py:58, gemini_service.py:39
GeminiRole(role) ==
    IF lower(role) \in { Str_assistant, Str_model } THEN "model" ELSE "user"

\* llm_processor.py:56-60, gemini_service.py:37-41
convert_history(history) ==
    [i \in 1..Len(history) |->
        [role |-> GeminiRole(history[i].role),
         parts |-> << history[i].content >>]]

\* llm_processor.py:68-70  the history handed to start_chat, and
\* gemini_service.py:45
ApplyConvertHistory(fn, history) ==
    IF fn = "_convert_history_to_gemini_format"
    THEN IF Len(history) > 0 THEN convert_history(history) ELSE << >>
    ELSE convert_history(history)

ConvertInit ==
    /\ LoopAtRest
    /\ StreamAtRest
    /\ FinderAtRest
    /\ ClientAtRest
    /\ SessionAtRest
    /\ MatchAtRest
    /\ HeadToHeadAtRest
    /\ parser_pc = "input"
    /\ parser_fn = ""
    /\ parser_input \in
          UNION { [1..n -> [role : Roles, content : ConvContents]] :
                     n \in 0..MaxConverted }
    /\ parser_output = << >>
    /\ parser_second = << >>

\* llm_processor.py:68-72, gemini_service.py:45-46  the history is converted
\* for start_chat.
ConvertHistory ==
    \E fn \in { "_convert_history_to_gemini_format", "_convert_history" } :
        /\ parser_pc = "input"
        /\ parser_fn' = fn
        /\ parser_output' = ApplyConvertHistory(fn, parser_input)
        /\ parser_pc' = "parsed"
        /\ UNCHANGED << parser_input, parser_second >>
        /\ UNCHANGED notParserVars

ConvertNext == ConvertHistory

ConvertSpec == ConvertInit /\ [][ConvertNext]_vars

\* C31: the converted history has as many messages as the history given, in
\* the same order (each with the content of the message at its position as
\* its only part), with the model role for the messages whose role is a
\* spelling of 'model' or 'assistant' in any case and the user role for all
\* others.
C31_ConversionKeepsOrderAndMapsRoles ==
    parser_pc = "parsed" =>
        /\ Len(parser_output) = Len(parser_input)
        /\ \A i \in 1..Len(parser_input) :
              /\ parser_output[i].parts = << parser_input[i].content >>
              /\ parser_output[i].role =
                    (IF parser_input[i].role \in ModelRoleSpellings
                     THEN "model" ELSE "user")

\* C31 witness: a history of a message with an unknown role followed by one
\* of the assistant spelt in capitals was converted.
C31_Witness ==
    /\ parser_pc = "parsed"
    /\ Len(parser_input) = 2
    /\ parser_input[1].role = << "s", "y", "s", "t", "e", "m" >>
    /\ parser_input[2].role = << "A", "S", "S", "I", "S", "T", "A", "N", "T" >>
    /\ parser_input[1].content # parser_input[2].content
    /\ parser_output[1].role = "user"
    /\ parser_output[2].role = "model"

\* ------------------------------------------------------ the head-to-head tool

\* The names the tool is called with.
H2HNames == { "sinner", "alcaraz" }

\* tennis_tools.py:100-101, tennis_api_client.py:274
TroubleFinding(generation, failed) ==
    IF generation = "tennis_tools"
    THEN "I had trouble finding a player named '" \o failed
         \o "'. Could you try their full name or check the spelling?"
    ELSE "I had trouble finding a player named '" \o failed
         \o "' in my records. Could you try their full name?"

\* tennis_tools.py:105, tennis_api_client.py:279
NoH2HHistory(p1_name, p2_name) ==
    "I couldn't find any head-to-head match history between " \o p1_name
    \o " and " \o p2_name \o "."

\* not p_id: the resolution returned None
Unresolved(resolution) == resolution.kind # "id"

\* tennis_tools.py:98-103, tennis_api_client.py:271-276  after the gather:
\* the summary about the first unresolved player, or the request
AfterResolutions(generation, p1_name, p2_name, p1, p2) ==
    IF Unresolved(p1) \/ Unresolved(p2)
    THEN [request |-> FALSE,
          payload |-> [summary |->
              JStr(TroubleFinding(generation,
                      IF Unresolved(p1) THEN p1_name ELSE p2_name))]]
    ELSE [request |-> TRUE, payload |-> << >>]

\* What the head-to-head request is answered with: a failure, a body without
\* events, a body with an event.
H2HRequestAnswers ==
    { [kind |-> "fails", raw |-> << >>],
      [kind |-> "json", raw |-> [events |-> JArr(<< >>)]],
      [kind |-> "json", raw |->
          [events |-> JArr(<< H2HEvent(TeamA, TeamB, 1,
                                  JObj([period1 |-> JNum(6)]),
                                  JObj([period1 |-> JNum(4)])) >>)]] }

\* tennis_tools.py:103-107, tennis_api_client.py:276-281  after the request
AfterH2HRequest(generation, p1_name, p2_name, p1_id, p2_id, answer) ==
    IF answer.kind = "fails" /\ generation = "tennis_tools"
    THEN RaisedException("TypeError")
    ELSE LET raw_data == IF answer.kind = "fails" THEN UpstreamError
                         ELSE answer.raw
         IN  IF "error" \in DOMAIN raw_data
                \/ ~Truthy(Get(raw_data, "events", JNull))
             THEN ReturnedValue([summary |->
                      JStr(NoH2HHistory(p1_name, p2_name))])
             ELSE ReturnedValue(
                      H2HRecord(IF generation = "tennis_tools"
                                THEN "parse_h2h_data"
                                ELSE "_process_h2h_data_and_return",
                                raw_data, p1_id, p2_id, p1_name, p2_name))

HeadToHeadInit ==
    /\ LoopAtRest
    /\ StreamAtRest
    /\ FinderAtRest
    /\ ClientAtRest
    /\ SessionAtRest
    /\ ParserAtRest
    /\ MatchAtRest
    /\ h2h_pc = "start"
    /\ h2h_args \in [generation : Generations, player1_name : H2HNames,
                     player2_name : H2HNames]
    /\ resolutions = << >>
    /\ h2h_requests = << >>
    /\ h2h_result = NoOutcome

\* tennis_tools.py:93-96  the two resolutions are handed to gather, which
\* starts both.
H2HStartResolutions ==
    /\ h2h_pc = "start"
    /\ resolutions' = << NoOutcome, NoOutcome >>
    /\ h2h_pc' = "gather"
    /\ UNCHANGED << h2h_args, h2h_requests, h2h_result >>
    /\ UNCHANGED notHeadToHeadVars

\* player_finder.py:75-93, tennis_api_client.py:255-261  a resolution
\* returns an id or None.
ResolutionReturns ==
    \E i \in 1..2, found \in { FoundId(1), FoundId(2), NotFound } :
        /\ h2h_pc = "gather"
        /\ resolutions[i] = NoOutcome
        /\ resolutions' = [resolutions EXCEPT ![i] = found]
        /\ UNCHANGED << h2h_pc, h2h_args, h2h_requests, h2h_result >>
        /\ UNCHANGED notHeadToHeadVars

\* player_finder.py:42, tennis_tools.py:93-96  a search of a resolution
\* raises: the resolution raises, and gather passes the exception on to
\* get_h2h_events, which has no handler.  The earlier copy's searches return
\* error payloads.
ResolutionRaises ==
    \E i \in 1..2, e \in { "TypeError", "RetryError" } :
        /\ h2h_pc = "gather"
        /\ h2h_args.generation = "tennis_tools"
        /\ resolutions[i] = NoOutcome
        /\ resolutions' = [resolutions EXCEPT ![i] = RaisedException(e)]
        /\ h2h_result' = RaisedException(e)
        /\ h2h_pc' = "done"
        /\ UNCHANGED << h2h_args, h2h_requests >>
        /\ UNCHANGED notHeadToHeadVars

\* tennis_tools.py:96-103  both resolutions have returned: the summary is
\* returned or the head-to-head request issued.
H2HResolved ==
    /\ h2h_pc = "gather"
    /\ \A i \in 1..2 : resolutions[i] # NoOutcome
    /\ LET next == AfterResolutions(h2h_args.generation, h2h_args.player1_name,
                                    h2h_args.player2_name, resolutions[1],
                                    resolutions[2])
       IN  IF next.request
           THEN /\ h2h_requests' =
                      Append(h2h_requests,
                             << resolutions[1].value, resolutions[2].value >>)
                /\ h2h_pc' = "request"
                /\ UNCHANGED h2h_result
           ELSE /\ h2h_result' = ReturnedValue(next.payload)
                /\ h2h_pc' = "done"
                /\ UNCHANGED h2h_requests
    /\ UNCHANGED << h2h_args, resolutions >>
    /\ UNCHANGED notHeadToHeadVars

\* tennis_tools.py:103-107  the head-to-head request is over.
H2HRequestReturns ==
    \E answer \in H2HRequestAnswers :
        /\ h2h_pc = "request"
        /\ h2h_result' =
              AfterH2HRequest(h2h_args.generation, h2h_args.player1_name,
                              h2h_args.player2_name, resolutions[1].value,
                              resolutions[2].value, answer)
        /\ h2h_pc' = "done"
        /\ UNCHANGED << h2h_args, resolutions, h2h_requests >>
        /\ UNCHANGED notHeadToHeadVars

HeadToHeadNext ==
    \/ H2HStartResolutions
    \/ ResolutionReturns
    \/ ResolutionRaises
    \/ H2HResolved
    \/ H2HRequestReturns

HeadToHeadSpec == HeadToHeadInit /\ [][HeadToHeadNext]_vars

\* A resolution of the tool has returned None.
SomeUnresolved ==
    \E i \in 1..Len(resolutions) : resolutions[i] = NotFound

\* The player the summary is to name: player 1 unless player 1 has an id.
FailedPlayer ==
    IF resolutions[1] = NotFound
    THEN h2h_args.player1_name ELSE h2h_args.player2_name

\* C34: both resolutions are under way as soon as one is; a head-to-head
\* request is issued only when both resolutions have returned an id, and
\* with those ids; when the tool is over and a resolution returned None, no
\* head-to-head request was made and the tool returned a payload without
\* 'error' whose summary names the unresolved player, player 1 when neither
\* is resolved.
C34_H2HOnlyAfterBothResolved ==
    /\ h2h_pc = "gather" => Len(resolutions) = 2
    /\ h2h_requests # << >> =>
          /\ \A i \in 1..2 : resolutions[i].kind = "id"
          /\ h2h_requests = << << resolutions[1].value, resolutions[2].value >> >>
    /\ (h2h_pc = "done" /\ SomeUnresolved) =>
          /\ h2h_requests = << >>
          /\ h2h_result.kind = "returned"
          /\ "error" \notin DOMAIN h2h_result.value
          /\ "summary" \in DOMAIN h2h_result.value
          /\ h2h_result.value.summary \in
                { JStr(TroubleFinding(generation, FailedPlayer)) :
                     generation \in Generations }

\* ------------------------------------------------------------ the web search

\* A result item of the search API.
SearchItem(title, snippet) == JObj([title |-> JStr(title), snippet |-> JStr(snippet)])

\* What the search request is answered with: a 4xx or 5xx status, a network
\* failure, a body that is not JSON, and JSON bodies: not an object, without
\* items, with no item or null for items, with one or two items, with an
\* item without title, without snippet, with a snippet of two lines, with
\* null for snippet, and with an item that is not an object.
WebAnswers ==
    { [kind |-> "status", code |-> 403, body |-> JNull],
      [kind |-> "status", code |-> 500, body |-> JNull],
      [kind |-> "network", code |-> 0, body |-> JNull],
      [kind |-> "bad_json", code |-> 200, body |-> JNull] }
    \cup { [kind |-> "json", code |-> 200, body |-> body] :
              body \in
                { JArr(<< >>),
                  JObj(EmptyDict),
                  JObj([items |-> JArr(<< >>)]),
                  JObj([items |-> JNull]),
                  JObj([items |-> JArr(<< SearchItem("Wimbledon 2024", "Alcaraz won.") >>)]),
                  JObj([items |-> JArr(<< SearchItem("Wimbledon 2024", "Alcaraz won."),
                                          SearchItem("ATP", "Sinner leads.") >>)]),
                  JObj([items |-> JArr(<< JObj([snippet |-> JStr("Sinner leads.")]) >>)]),
                  JObj([items |-> JArr(<< JObj([title |-> JStr("ATP")]) >>)]),
                  JObj([items |-> JArr(<< SearchItem("ATP", "Sinner\nleads.") >>)]),
                  JObj([items |-> JArr(<< JObj([title |-> JStr("ATP"),
                                                snippet |-> JNull]) >>)]),
                  JObj([items |-> JArr(<< SearchItem("ATP", "Sinner leads."),
                                          JStr("ATP") >>)]) } }

\* web_search_client.py:50  snippet.replace("\n", " ") on the snippets in use
ReplaceNewlines(str) == IF str = "Sinner\nleads." THEN "Sinner leads." ELSE str

\* web_search_client.py:48-50  an item raises AttributeError: it has no get,
\* or its snippet has no replace
ItemRaises(item) ==
    \/ ~IsDict(item)
    \/ Get(item.d, "snippet", JStr("No Snippet Available")).t # "str"

\* web_search_client.py:49-51
ContextSnippet(item) ==
    "Title: " \o Fmt(Get(item.d, "title", JStr("No Title")))
    \o "\nSnippet: "
    \o ReplaceNewlines(Get(item.d, "snippet", JStr("No Snippet Available")).s)

\* "\n\n".join(strs)
RECURSIVE JoinBlankLine(_)
JoinBlankLine(strs) ==
    IF Len(strs) = 0 THEN ""
    ELSE IF Len(strs) = 1 THEN strs[1]
    ELSE strs[1] \o "\n\n" \o JoinBlankLine(Tail(strs))

\* web_search_client.py:32-60  the try block: the payload it returns, or the
\* exception raised in it
WebSearchTry(answer) ==
    CASE answer.kind = "status" -> [exc |-> "HTTPStatusError", value |-> << >>]
      [] answer.kind = "network" -> [exc |-> "RequestError", value |-> << >>]
      [] answer.kind = "bad_json" -> [exc |-> "JSONDecodeError", value |-> << >>]
      [] OTHER ->
           IF ~IsDict(answer.body)
           THEN [exc |-> "AttributeError", value |-> << >>]
           ELSE LET items == Get(answer.body.d, "items", JArr(<< >>))
                IN  IF ~Truthy(items)
                    THEN [exc |-> "",
                          value |-> [summary |->
                              "I searched but couldn't find any relevant information."]]
                    ELSE IF \E k \in 1..Len(items.a) : ItemRaises(items.a[k])
                    THEN [exc |-> "AttributeError", value |-> << >>]
                    ELSE [exc |-> "",
                          value |->
                              [context |->
                                   JoinBlankLine([k \in 1..Len(items.a) |->
                                       ContextSnippet(items.a[k])]),
                               source |-> "Google Custom Search API"]]

\* A perform_web_search without its last handler.
WebSearchCallNoCatchAll(answer) ==
    LET try == WebSearchTry(answer)
    IN  CASE try.exc = "" -> ReturnedValue(try.value)
          [] try.exc = "HTTPStatusError" ->
               ReturnedValue([error |->
                   "The web search service returned an error: "
                   \o NumStr(answer.code)])
          [] try.exc = "RequestError" ->
               ReturnedValue([error |->
                   "Failed to connect to the web search service: timed out"])
          [] OTHER -> RaisedException(try.exc)

\* web_search_client.py:15-70  perform_web_search on an answer of the search
\* API
WebSearchCall(answer) ==
    LET try == WebSearchTry(answer)
    IN  CASE try.exc = "" -> ReturnedValue(try.value)
          [] try.exc = "HTTPStatusError" ->
               ReturnedValue([error |->
                   "The web search service returned an error: "
                   \o NumStr(answer.code)])
          [] try.exc = "RequestError" ->
               ReturnedValue([error |->
                   "Failed to connect to the web search service: timed out"])
          [] OTHER ->
               ReturnedValue([error |->
                   "An unexpected error occurred while trying to search the web."])

\* The error payloads of the primary tool whose failure starts the fallback.
PrimaryToolErrors ==
    { [error |-> "Could not connect to the Tennis API."],
      [error |-> "Received invalid data from the Tennis API."] }

WebSearchInit ==
    /\ LoopAtRest
    /\ StreamAtRest
    /\ FinderAtRest
    /\ ClientAtRest
    /\ SessionAtRest
    /\ MatchAtRest
    /\ HeadToHeadAtRest
    /\ parser_pc = "input"
    /\ parser_fn = "perform_web_search"
    /\ parser_input \in [query : Queries \cup { LlmSearchQuery },
                         answer : WebAnswers,
                         tool_output : PrimaryToolErrors]
    /\ parser_output = << >>
    /\ parser_second = << >>

\* llm_processor.py:124  the fallback's perform_web_search is over.
WebSearchReturns ==
    /\ parser_pc = "input"
    /\ parser_output' = WebSearchCall(parser_input.answer)
    /\ parser_pc' = "parsed"
    /\ UNCHANGED << parser_fn, parser_input, parser_second >>
    /\ UNCHANGED notParserVars

\* llm_processor.py:125-137  the fallback context is built from the result of
\* the search; an exception of the search is left to the per-tool handler.
FallbackContextBuilt ==
    /\ parser_pc = "parsed"
    /\ parser_second' =
          IF parser_output.kind = "raised"
          THEN ExecutionFailedOutput("get_rankings", parser_output.exc)
          ELSE FallbackContext(parser_input.tool_output, parser_output.value)
    /\ parser_pc' = "reparsed"
    /\ UNCHANGED << parser_fn, parser_input, parser_output >>
    /\ UNCHANGED notParserVars

WebSearchNext == WebSearchReturns \/ FallbackContextBuilt

WebSearchSpec == WebSearchInit /\ [][WebSearchNext]_vars

\* The answer holds at least one result item, each an object whose snippet
\* is a text or is missing.
HasUsableItems ==
    /\ parser_input.answer.kind = "json"
    /\ parser_input.answer.body.t = "obj"
    /\ "items" \in DOMAIN parser_input.answer.body.d
    /\ parser_input.answer.body.d.items.t = "arr"
    /\ Len(parser_input.answer.body.d.items.a) > 0
    /\ \A k \in 1..Len(parser_input.answer.body.d.items.a) :
          LET item == parser_input.answer.body.d.items.a[k]
          IN  /\ item.t = "obj"
              /\ "snippet" \in DOMAIN item.d => item.d.snippet.t = "str"

\* C36: for every answer of the search API perform_web_search returns, and
\* what it returns has exactly the keys context and source, or error alone,
\* or summary alone (context only for an answer with usable items, error for
\* every failed request); the fallback context built from it holds the
\* tool's error and, as web_search_context, the context of the search or,
\* when there is none, the fixed text.
C36_WebSearchNeverRaises ==
    /\ parser_pc \in { "parsed", "reparsed" } =>
          /\ parser_output.kind = "returned"
          /\ DOMAIN parser_output.value \in
                { { "context", "source" }, { "error" }, { "summary" } }
          /\ "context" \in DOMAIN parser_output.value <=> HasUsableItems
          /\ parser_input.answer.kind # "json" =>
                "error" \in DOMAIN parser_output.value
    /\ parser_pc = "reparsed" =>
          /\ DOMAIN parser_second = { "original_tool_error", "web_search_context" }
          /\ parser_second.original_tool_error = parser_input.tool_output
          /\ parser_second.web_search_context =
                (IF HasUsableItems THEN parser_output.value.context
                 ELSE "No information found from web search.")

\* C36 witness: the body of the search answer was not JSON; the search
\* returned an error payload and the fallback context holds the fixed text.
C36_Witness ==
    /\ parser_pc = "reparsed"
    /\ parser_fn = "perform_web_search"
    /\ parser_input.answer.kind = "bad_json"
    /\ "error" \in DOMAIN parser_output.value
    /\ parser_second.web_search_context = NoWebContext

====
